---- MODULE Spec2Model ----
(***************************************************************************)
(* Workspace session process supervisor of cmux.                           *)
(*                                                                         *)
(*  - runMaintenanceAndDevScripts and the orchestrator script it writes    *)
(*    (apps/www/lib/routes/sandboxes/startDevAndMaintenanceScript.ts)      *)
(*  - the VS Code serve-web supervisor                                     *)
(*    (apps/worker/src/screenshotCollector/startScreenshotCollection.ts)   *)
(*                                                                         *)
(* A JavaScript string is a sequence of tokens; a token is one character   *)
(* or a fixed phrase of the source.  The empty string is << >>.            *)
(* "string | null" and "string | undefined" values are Null or Some(s).    *)
(***************************************************************************)
EXTENDS Integers, Sequences, FiniteSets, TLC

\* ------------------------------------------------------------------------
\* Bounds of the model
\* ------------------------------------------------------------------------

\* number of polls of the maintenance wait loop (600 in the source, scaled)
MaxAttempts == 3

\* number of probes of waitForTmuxSession's loop (20 in the source, scaled)
MaxSessionProbes == 2

\* the launch requests (calls of runMaintenanceAndDevScripts) of a workspace
Runs == {1, 2}

\* ------------------------------------------------------------------------
\* Strings
\* ------------------------------------------------------------------------

Null == [isNull |-> TRUE]

Some(s) == [value |-> s]

WhiteSpace == {" ", "\n", "\t"}

RECURSIVE TrimStart(_)
TrimStart(s) ==
  IF s # << >> /\ Head(s) \in WhiteSpace THEN TrimStart(Tail(s)) ELSE s

RECURSIVE TrimEnd(_)
TrimEnd(s) ==
  IF s # << >> /\ s[Len(s)] \in WhiteSpace
  THEN TrimEnd(SubSeq(s, 1, Len(s) - 1))
  ELSE s

\* String.prototype.trim
Trim(s) == TrimEnd(TrimStart(s))

\* truthiness of a "string | null" value
Truthy(v) == v # Null /\ v.value # << >>

\* String.prototype.includes, as in windowCheck.includes(DEV_WINDOW_NAME): the
\* name occurs somewhere in the text
Includes(output, name) ==
  \E i \in 1..Len(output.text) :
    /\ i + Len(name) - 1 <= Len(output.text)
    /\ SubSeq(output.text, i, i + Len(name) - 1) = name

\* Number.prototype.toString(36) of a non-negative integer
Base36Digits ==
  << "0", "1", "2", "3", "4", "5", "6", "7", "8", "9", "a", "b", "c", "d",
     "e", "f", "g", "h", "i", "j", "k", "l", "m", "n", "o", "p", "q", "r",
     "s", "t", "u", "v", "w", "x", "y", "z" >>

RECURSIVE ToString36(_)
ToString36(n) ==
  IF n < 36
  THEN Base36Digits[n + 1]
  ELSE ToString36(n \div 36) \o Base36Digits[(n % 36) + 1]

DigitValue ==
  "0" :> 0 @@ "1" :> 1 @@ "2" :> 2 @@ "3" :> 3 @@ "4" :> 4 @@
  "5" :> 5 @@ "6" :> 6 @@ "7" :> 7 @@ "8" :> 8 @@ "9" :> 9

RECURSIVE ParseDigits(_, _, _)
\* the longest prefix of digits of s, read in base 10; Null when there is none
ParseDigits(s, acc, seen) ==
  IF s # << >> /\ Head(s) \in DOMAIN DigitValue
  THEN ParseDigits(Tail(s), 10 * acc + DigitValue[Head(s)], TRUE)
  ELSE IF seen THEN Some(acc) ELSE Null

\* Number.parseInt(s, 10): leading white space skipped, an optional sign, then
\* the longest prefix of digits; Null stands for NaN
ParseInt(s) ==
  LET t == TrimStart(s)
      neg == t # << >> /\ Head(t) = "-"
      u == IF t # << >> /\ Head(t) \in {"-", "+"} THEN Tail(t) ELSE t
      d == ParseDigits(u, 0, FALSE)
  IN  IF d = Null THEN Null ELSE IF neg THEN Some(0 - d.value) ELSE d

\* ------------------------------------------------------------------------
\* startDevAndMaintenanceScript.ts: constants, identifiers and paths
\* ------------------------------------------------------------------------

WORKSPACE_ROOT == "/root/workspace"

CMUX_RUNTIME_DIR == "/var/tmp/cmux-scripts"

MAINTENANCE_WINDOW_NAME == "maintenance"

MAINTENANCE_SCRIPT_FILENAME == "maintenance.sh"

DEV_WINDOW_NAME == "dev"

DEV_SCRIPT_FILENAME == "dev.sh"

allocateScriptIdentifiers ==
  [ maintenance |->
      [ windowName |-> MAINTENANCE_WINDOW_NAME,
        scriptPath |-> CMUX_RUNTIME_DIR \o "/" \o MAINTENANCE_SCRIPT_FILENAME ],
    dev |->
      [ windowName |-> DEV_WINDOW_NAME,
        scriptPath |-> CMUX_RUNTIME_DIR \o "/" \o DEV_SCRIPT_FILENAME ] ]

\* Date.now() and Math.random().toString(36).slice(2, 10) of a launch
NowValues == {1, 2}

RandomTails == {"k3"}

\* `${Date.now().toString(36)}_${Math.random().toString(36).slice(2, 10)}`
MakeRunId(now, tail) == ToString36(now) \o "_" \o tail

RunIds == { MakeRunId(n, t) : n \in NowValues, t \in RandomTails }

orchestratorScriptPath(id) == CMUX_RUNTIME_DIR \o "/orchestrator_" \o id \o ".ts"

maintenanceExitCodePath(id) ==
  CMUX_RUNTIME_DIR \o "/maintenance_" \o id \o ".exit-code"

maintenanceErrorLogPath(id) == CMUX_RUNTIME_DIR \o "/maintenance_" \o id \o ".log"

devExitCodePath(id) == CMUX_RUNTIME_DIR \o "/dev_" \o id \o ".exit-code"

devErrorLogPath(id) == CMUX_RUNTIME_DIR \o "/dev_" \o id \o ".log"

orchestratorLogPath(id) == CMUX_RUNTIME_DIR \o "/orchestrator_" \o id \o ".log"

\* every path one launch with run identifier id names
GeneratedPaths(id) ==
  { allocateScriptIdentifiers.maintenance.scriptPath,
    allocateScriptIdentifiers.dev.scriptPath,
    orchestratorScriptPath(id), orchestratorLogPath(id),
    maintenanceExitCodePath(id), maintenanceErrorLogPath(id),
    devExitCodePath(id), devErrorLogPath(id) }

Paths == UNION { GeneratedPaths(id) : id \in RunIds }

\* ------------------------------------------------------------------------
\* Files
\* ------------------------------------------------------------------------

Absent == [kind |-> "absent"]

TextFile(chars) == [kind |-> "text", chars |-> chars]

\* the maintenance wrapper: "#!/bin/zsh", "set -eux", cd, banner, text, banner
MaintenanceScriptContent(text) ==
  [kind |-> "script", options |-> "set -eux", text |-> text, endBanner |-> TRUE]

\* the dev wrapper: "#!/bin/zsh", "set -ux", cd, banner, text
DevScriptContent(text) ==
  [kind |-> "script", options |-> "set -ux", text |-> text, endBanner |-> FALSE]

\* ------------------------------------------------------------------------
\* State
\* ------------------------------------------------------------------------

VARIABLES
  \* runMaintenanceAndDevScripts, one call per run
  args,             \* the call's arguments
  lpc,              \* position of the call
  runId,            \* the run identifier it generated (Null before)
  execCalls,        \* number of instance.exec calls it made
  execResult,       \* how its instance.exec call ended (Null before)
  \* the sandbox
  files,            \* path -> content
  sessionState,     \* the tmux session "cmux": "absent" or "running"
  remote,           \* per run and stage, the command typed into the window
  \* the orchestrator process of each run
  opc,              \* position
  cfg,              \* the constants baked into its script
  probes,           \* waitForTmuxSession: i
  attempts,         \* runMaintenanceScript: attempts
  parsed,           \* exitCode parsed from the exit-code file just read
  maintenanceResult,
  devResult,
  cmds,             \* the tmux commands issued so far, in order
  cmdResults,       \* how each of them ended: "ok" or "fails"
  posts,            \* the bodies POSTed to the control plane, in order
  responses,        \* how each fetch ended
  logReads,         \* what each read of an error log gave, in order
  windowChecks,     \* what each tmux list-windows printed, in order
  exited            \* << >> while running, <<code>> after process.exit(code)

launcherVars == <<args, lpc, runId, execCalls, execResult>>

sandboxVars == <<files, sessionState, remote>>

orchVars ==
  <<opc, cfg, probes, attempts, parsed, maintenanceResult, devResult, cmds, cmdResults,
    posts, responses, logReads, windowChecks, exited>>

VARIABLES
  \* the worker process that supervises VS Code serve-web
  platform,                     \* process.platform
  resolvedVSCodeExecutable,
  currentServeWebBaseUrl,
  currentServeWebSocketPath,
  \* the calls of ensureVSCodeServeWeb
  epc,              \* position of the call
  executable,       \* its local executable
  socketPath,       \* its local socketPath
  polls,            \* rounds of the wait loop it is in
  child,            \* the process it spawned
  \* the calls of stopVSCodeServeWeb, per handle
  stops,            \* number of calls made with the handle
  unlinks,          \* unlinks started by them and not yet settled
  \* the file system
  socketFiles,      \* the socket paths that exist
  \* what the calls did
  lookupsRun,       \* the lookups resolveVSCodeExecutable ran, per call
  warmUps,          \* how warmUpVSCodeServeWeb ended, per call
  \* a call of waitForVSCodeServeWebBaseUrl
  waiter

serveVars ==
  <<platform, resolvedVSCodeExecutable, currentServeWebBaseUrl,
    currentServeWebSocketPath, epc, executable, socketPath, polls, child,
    stops, unlinks, socketFiles, lookupsRun, warmUps, waiter>>

\* ------------------------------------------------------------------------
\* runMaintenanceAndDevScripts
\* ------------------------------------------------------------------------

\* inputs: the script texts and the callback configuration of a call
ScriptTexts == { Null, Some(<<" ", "\n">>), Some(<<" ", "exit 3", "\n">>) }

CallbackValues == { Null, Some(<<"cfg">>) }

\* a flag that is set by any text that is given
HasScriptWhenGiven(text) == text # Null

\* a flag that does not trim the text
HasScriptUntrimmed(text) == text # Null /\ text.value # << >>

\* Boolean(script && script.trim().length > 0)
HasScript(text) == text # Null /\ text.value # << >> /\ Len(Trim(text.value)) > 0

\* value ?? ""
OrEmpty(v) == IF v = Null THEN << >> ELSE v.value

\* the config handed to buildOrchestratorScript
OrchestratorConfig(a, id) ==
  [ workspaceRoot |-> WORKSPACE_ROOT,
    runtimeDir |-> CMUX_RUNTIME_DIR,
    maintenanceScriptPath |-> allocateScriptIdentifiers.maintenance.scriptPath,
    devScriptPath |-> allocateScriptIdentifiers.dev.scriptPath,
    maintenanceWindowName |-> allocateScriptIdentifiers.maintenance.windowName,
    devWindowName |-> allocateScriptIdentifiers.dev.windowName,
    maintenanceExitCodePath |-> maintenanceExitCodePath(id),
    maintenanceErrorLogPath |-> maintenanceErrorLogPath(id),
    devExitCodePath |-> devExitCodePath(id),
    devErrorLogPath |-> devErrorLogPath(id),
    hasMaintenanceScript |-> HasScript(a.maintenanceScript),
    hasDevScript |-> HasScript(a.devScript),
    convexUrl |-> OrEmpty(a.convexUrl),
    taskRunJwt |-> OrEmpty(a.taskRunJwt) ]

NoConfig == [none |-> TRUE]

\* the early return of lines 431-434
SkipsStart(a) == ~HasScript(a.maintenanceScript) /\ ~HasScript(a.devScript)

\* lines 424-444: the flags, the early return, the run identifier; then the
\* call of instance.exec (line 527)
RunMaintenanceAndDevScripts(r) ==
  /\ lpc[r] = "call"
  /\ IF SkipsStart(args[r])
     THEN /\ lpc' = [lpc EXCEPT ![r] = "resolved"]
          /\ UNCHANGED <<runId, execCalls>>
     ELSE \E now \in NowValues, tail \in RandomTails :
            /\ runId' = [runId EXCEPT ![r] = Some(MakeRunId(now, tail))]
            /\ execCalls' = [execCalls EXCEPT ![r] = @ + 1]
            /\ lpc' = [lpc EXCEPT ![r] = "execWriteScripts"]
  /\ UNCHANGED <<serveVars, args, execResult, sandboxVars, orchVars>>

\* setupAndRunCommand, lines 488-501: the script files of the tasks that exist
ExecWriteScripts(r) ==
  /\ lpc[r] = "execWriteScripts"
  /\ LET c == OrchestratorConfig(args[r], runId[r].value)
         withMaintenance ==
           IF c.hasMaintenanceScript
           THEN [files EXCEPT
                   ![c.maintenanceScriptPath] =
                     MaintenanceScriptContent(args[r].maintenanceScript.value),
                   ![c.maintenanceExitCodePath] = Absent]
           ELSE files
     IN  files' =
           IF c.hasDevScript
           THEN [withMaintenance EXCEPT
                   ![c.devScriptPath] = DevScriptContent(args[r].devScript.value)]
           ELSE withMaintenance
  /\ lpc' = [lpc EXCEPT ![r] = "execStartOrchestrator"]
  /\ UNCHANGED <<serveVars, args, runId, execCalls, execResult, sessionState, remote, orchVars>>

\* setupAndRunCommand, lines 503-512: the orchestrator script is written and
\* started in the background, its output redirected to its log file
ExecStartOrchestrator(r) ==
  /\ lpc[r] = "execStartOrchestrator"
  /\ LET id == runId[r].value
         c == OrchestratorConfig(args[r], id)
     IN  /\ files' = [files EXCEPT
                        ![orchestratorScriptPath(id)] =
                          [kind |-> "orchestrator", config |-> c],
                        ![orchestratorLogPath(id)] = TextFile(<< >>)]
         /\ cfg' = [cfg EXCEPT ![r] = c]
  /\ opc' = [opc EXCEPT ![r] = "waitForTmuxSession"]
  /\ lpc' = [lpc EXCEPT ![r] = "execVerify"]
  /\ UNCHANGED <<serveVars, args, runId, execCalls, execResult, sessionState, remote, probes,
                 attempts, parsed, maintenanceResult, devResult, cmds, cmdResults, posts, responses,
                 logReads, windowChecks, exited>>

\* what the command prints when the orchestrator is alive after one second
StartConfirmation == "[ORCHESTRATOR] Started successfully in background (PID:"

ExecReturned(code, stdout) == [kind |-> "returned", exit_code |-> code, stdout |-> stdout]

\* setupAndRunCommand, lines 514-523: what instance.exec returns once the
\* command has come to its check; the response may carry no stdout
VerifyResults(alive) ==
  IF alive
  THEN { ExecReturned(0, Some(<<StartConfirmation, " 4242)", "\n">>)),
         ExecReturned(0, Null) }
  ELSE { ExecReturned(1, Some(<< >>)) }

\* what instance.exec gives when the command does not come to its end: the
\* call rejects, or a command of the set -eu script fails
FailureResults(position) ==
  IF position = "execVerify"
  THEN { [kind |-> "throws"] }
  ELSE { [kind |-> "throws"], ExecReturned(1, Some(<< >>)) }

\* a launcher that trusts the exit code alone
ExecConfirmedByExitCode(result) == result.kind = "returned" /\ result.exit_code = 0

\* lines 531-543: the exit code is 0 and the trimmed stdout contains the
\* confirmation
ExecConfirmed(result) ==
  /\ result.kind = "returned"
  /\ result.exit_code = 0
  /\ Includes([text |-> Trim(OrEmpty(result.stdout))], << StartConfirmation >>)

\* lines 527-550: the call resolves, or throws an Error
Settles(r, result) ==
  /\ execResult' = [execResult EXCEPT ![r] = result]
  /\ lpc' = [lpc EXCEPT ![r] = IF ExecConfirmed(result) THEN "resolved" ELSE "rejected"]

\* setupAndRunCommand, lines 514-523, and lines 527-550: after one second the
\* command confirms the start if the orchestrator is still alive, and exits
\* with 1 otherwise
ExecVerify(r) ==
  /\ lpc[r] = "execVerify"
  /\ \E result \in VerifyResults(exited[r] = << >>) : Settles(r, result)
  /\ UNCHANGED <<serveVars, args, runId, execCalls, sandboxVars, orchVars>>

\* instance.exec rejects, or a command of the set -eu script fails
ExecFails(r) ==
  /\ lpc[r] \in {"execWriteScripts", "execStartOrchestrator", "execVerify"}
  /\ \E result \in FailureResults(lpc[r]) : Settles(r, result)
  /\ UNCHANGED <<serveVars, args, runId, execCalls, sandboxVars, orchVars>>

\* ------------------------------------------------------------------------
\* The sandbox: the tmux session and the commands typed into its windows
\* ------------------------------------------------------------------------

\* what `echo ${pipestatus[1]} > file` leaves in an exit-code file, and what
\* anything else writing to that path may leave there
ExitCodeContents ==
  { <<"0", "\n">>, <<"3", "\n">>, <<"\n">>, <<"x", "\n">>, <<"3", "x", "\n">> }

\* a log of 101 lines: the line "first", then 100 lines "l"
LongLog ==
  [ i \in 1..202 |-> IF i % 2 = 0 THEN "\n" ELSE IF i = 1 THEN "first" ELSE "l" ]

\* what reading an error log may give: the read throws, the log does not
\* exist, or it holds what tee has written so far
ErrorLogReads ==
  { [kind |-> "throws"], Absent, TextFile(<< >>), TextFile(<<"\n">>),
    TextFile(<<"+ exit 3", "\n", "boom", "\n">>), TextFile(LongLog) }

\* what a tmux command may do: the session and its windows belong to the
\* sandbox, which may close them at any time
TmuxOutcomes == {"ok", "fails"}

\* a window of another user of the session, whose name starts with "dev"
OtherWindowName == << DEV_WINDOW_NAME, "-server" >>

\* the windows the session may have, in the order of their indices
WindowOrder == << <<MAINTENANCE_WINDOW_NAME>>, <<DEV_WINDOW_NAME>>, OtherWindowName >>

\* the window names tmux list-windows may report
WindowNames == { WindowOrder[i] : i \in DOMAIN WindowOrder }

IdleRemote ==
  [maintenance |-> "idle", dev |-> "idle", maintenanceRan |-> Absent,
   devRan |-> Absent]

\* tmux has-session -t cmux
HasSession == sessionState = "running"

\* the session is created by the sandbox, not by this subsystem
SessionAppears ==
  /\ sessionState = "absent"
  /\ sessionState' = "running"
  /\ UNCHANGED <<serveVars, launcherVars, files, remote, orchVars>>

\* the maintenance command line ends: tee has written the log and the exit
\* status of the pipeline is written to the exit-code file
RemoteMaintenanceExits(r) ==
  /\ remote[r].maintenance = "running"
  /\ \E code \in ExitCodeContents :
       files' = [files EXCEPT ![cfg[r].maintenanceExitCodePath] = TextFile(code)]
  /\ remote' = [remote EXCEPT ![r].maintenance = "finished"]
  /\ UNCHANGED <<serveVars, launcherVars, sessionState, orchVars>>

RemoteDevExits(r) ==
  /\ remote[r].dev = "running"
  /\ \E code \in ExitCodeContents :
       files' = [files EXCEPT ![cfg[r].devExitCodePath] = TextFile(code)]
  /\ remote' = [remote EXCEPT ![r].dev = "finished"]
  /\ UNCHANGED <<serveVars, launcherVars, sessionState, orchVars>>

\* ------------------------------------------------------------------------
\* The orchestrator script (buildOrchestratorScript, lines 84-406)
\* ------------------------------------------------------------------------

\* lines.slice(-100)
TailLines == 100

RECURSIVE SplitLines(_)
\* String.prototype.split("\n"): the pieces between the line breaks, found by
\* splitting at the middle break and then each half
SplitLines(s) ==
  LET breaks == { i \in 1..Len(s) : s[i] = "\n" }
  IN  IF breaks = {}
      THEN << s >>
      ELSE LET m == CHOOSE i \in breaks :
                      Cardinality({ j \in breaks : j < i }) = Cardinality(breaks) \div 2
           IN  SplitLines(SubSeq(s, 1, m - 1)) \o SplitLines(SubSeq(s, m + 1, Len(s)))

\* Array.prototype.slice(-n)
SliceLast(lines, n) ==
  IF Len(lines) <= n THEN lines ELSE SubSeq(lines, Len(lines) - n + 1, Len(lines))

RECURSIVE JoinLines(_)
\* Array.prototype.join("\n"), one half of the lines after the other
JoinLines(lines) ==
  IF lines = << >> THEN << >>
  ELSE IF Len(lines) = 1 THEN lines[1]
  ELSE LET h == Len(lines) \div 2
       IN  JoinLines(SubSeq(lines, 1, h)) \o <<"\n">>
             \o JoinLines(SubSeq(lines, h + 1, Len(lines)))

\* lines 211-223 and 334-346: the tail of the error log; "" when the log does
\* not exist or reading it throws
ErrorDetails(read) ==
  IF read.kind # "text"
  THEN << >>
  ELSE JoinLines(SliceLast(SplitLines(Trim(read.chars)), TailLines))

\* a message that is the tail of the log even when there is none
ErrorMessageOfLogOnly(details, stage, exitCode) == details

\* a message that never quotes the log
ErrorMessageGeneric(details, stage, exitCode) ==
  << stage \o " script failed with exit code ", ToString(exitCode) >>

\* errorDetails || `<Stage> script failed with exit code ${exitCode}`
ErrorMessage(details, stage, exitCode) ==
  IF details # << >> THEN details
  ELSE << stage \o " script failed with exit code ", ToString(exitCode) >>

NoResult == [pending |-> TRUE]

Result(exitCode, error) == [exitCode |-> exitCode, error |-> error]

TmuxCmd(cmd, target) == [cmd |-> cmd, target |-> target]

\* process.exit(code)
Exit(r, code) ==
  /\ exited' = [exited EXCEPT ![r] = << code >>]
  /\ opc' = [opc EXCEPT ![r] = "exited"]

\* a catch that lets the process end as if nothing had failed
FatalExitAsSuccess(r) == Exit(r, 0)

\* main, lines 401-404: the catch of a throw of createWindows ends the process
FatalExit(r) == Exit(r, 1)

\* a wait that gives up one probe early
SessionWaitOverOneProbeEarly(i) == i >= MaxSessionProbes - 1

\* waitForTmuxSession, lines 113 and 122-129: the loop has made its probes
\* and this one is the final probe
SessionWaitOver(i) == i >= MaxSessionProbes

\* waitForTmuxSession, lines 112-130: one probe of the loop, or the final one;
\* i is a local of the call and is forgotten when it returns
WaitForTmuxSession(r) ==
  /\ opc[r] = "waitForTmuxSession"
  /\ IF SessionWaitOver(probes[r]) /\ ~HasSession
     THEN /\ FatalExit(r)
          /\ UNCHANGED probes
     ELSE IF HasSession
     THEN /\ opc' = [opc EXCEPT ![r] = "createMaintenanceWindow"]
          /\ probes' = [probes EXCEPT ![r] = 0]
          /\ UNCHANGED exited
     ELSE /\ probes' = [probes EXCEPT ![r] = @ + 1]
          /\ UNCHANGED <<opc, exited>>
  /\ UNCHANGED <<serveVars, launcherVars, logReads, windowChecks, sandboxVars, cfg, attempts, parsed,
                 maintenanceResult, devResult, cmds, cmdResults, posts, responses>>

\* a createWindows that does not notice a failed command
WindowCreatedAssumed(outcome) == TRUE

\* await $`tmux new-window ...`, lines 137 and 148: the call throws when the
\* command fails
WindowCreated(outcome) == outcome = "ok"

\* a main that starts the dev script as soon as the windows exist
AfterCreateWindowsStartsDev == "startDevScript"

\* main, lines 371-373: runMaintenanceScript follows createWindows
AfterCreateWindows == "runMaintenanceScript"

\* createWindows, lines 135-144, and the catch of lines 401-404
CreateMaintenanceWindow(r) ==
  /\ opc[r] = "createMaintenanceWindow"
  /\ IF ~cfg[r].hasMaintenanceScript
     THEN /\ opc' = [opc EXCEPT ![r] = "createDevWindow"]
          /\ UNCHANGED <<cmds, cmdResults, exited>>
     ELSE /\ cmds' = [cmds EXCEPT
                        ![r] = Append(@, TmuxCmd("new-window",
                                                 cfg[r].maintenanceWindowName))]
          /\ \E outcome \in TmuxOutcomes :
               /\ cmdResults' = [cmdResults EXCEPT ![r] = Append(@, outcome)]
               /\ IF WindowCreated(outcome)
                  THEN /\ opc' = [opc EXCEPT ![r] = "createDevWindow"]
                       /\ UNCHANGED exited
                  ELSE FatalExit(r)
  /\ UNCHANGED <<serveVars, launcherVars, logReads, windowChecks, sandboxVars, cfg, probes, attempts, parsed,
                 maintenanceResult, devResult, posts, responses>>

\* createWindows, lines 146-155, and the catch of lines 401-404
CreateDevWindow(r) ==
  /\ opc[r] = "createDevWindow"
  /\ IF ~cfg[r].hasDevScript
     THEN /\ opc' = [opc EXCEPT ![r] = AfterCreateWindows]
          /\ UNCHANGED <<cmds, cmdResults, exited>>
     ELSE /\ cmds' = [cmds EXCEPT
                        ![r] = Append(@, TmuxCmd("new-window", cfg[r].devWindowName))]
          /\ \E outcome \in TmuxOutcomes :
               /\ cmdResults' = [cmdResults EXCEPT ![r] = Append(@, outcome)]
               /\ IF WindowCreated(outcome)
                  THEN /\ opc' = [opc EXCEPT ![r] = AfterCreateWindows]
                       /\ UNCHANGED exited
                  ELSE FatalExit(r)
  /\ UNCHANGED <<serveVars, launcherVars, logReads, windowChecks, sandboxVars, cfg, probes, attempts, parsed,
                 maintenanceResult, devResult, posts, responses>>

\* a dev window that is created only once the maintenance script is done
AfterMaintenanceCreatesDevWindow(result) == "createDevWindow"

\* a main that gives up on the dev script when the maintenance script failed
AfterMaintenanceAbortsOnError(result) ==
  IF Truthy(result.error) THEN "exited" ELSE "startDevScript"

\* main, lines 373-380: whatever runMaintenanceScript returned, startDevScript
\* is the next call
AfterMaintenance(result) == "startDevScript"

\* the return of runMaintenanceScript into main, lines 373-375
MaintenanceReturns(r, result) ==
  /\ maintenanceResult' = [maintenanceResult EXCEPT ![r] = result]
  /\ opc' = [opc EXCEPT ![r] = AfterMaintenance(result)]

\* the catch of lines 234-241
MaintenanceThrew(message) ==
  Result(1, Some(<<"Maintenance script execution failed: ", message>>))

\* runMaintenanceScript, lines 159-170: the early return, or the command typed
\* into the maintenance window, which starts the script and its tee
RunMaintenanceScript(r) ==
  /\ opc[r] = "runMaintenanceScript"
  /\ IF ~cfg[r].hasMaintenanceScript
     THEN /\ MaintenanceReturns(r, Result(0, Null))
          /\ UNCHANGED <<cmds, cmdResults, remote, files>>
     ELSE /\ cmds' = [cmds EXCEPT
                        ![r] = Append(@, TmuxCmd("send-keys",
                                                 cfg[r].maintenanceWindowName))]
          /\ \E outcome \in TmuxOutcomes :
               /\ cmdResults' = [cmdResults EXCEPT ![r] = Append(@, outcome)]
               /\ IF outcome = "ok"
                  THEN /\ remote' = [remote EXCEPT
                                       ![r].maintenance = "running",
                                       ![r].maintenanceRan =
                                         files[cfg[r].maintenanceScriptPath]]
                       /\ files' = [files EXCEPT
                                      ![cfg[r].maintenanceErrorLogPath] = TextFile(<< >>)]
                       /\ opc' = [opc EXCEPT ![r] = "maintenanceWait"]
                       /\ UNCHANGED maintenanceResult
                  ELSE /\ MaintenanceReturns(r, MaintenanceThrew("tmux send-keys failed"))
                       /\ UNCHANGED <<remote, files>>
  /\ UNCHANGED <<serveVars, launcherVars, logReads, windowChecks, sessionState, cfg, probes, attempts, parsed,
                 devResult, posts, responses, exited>>

\* a timeout reported as an ordinary failure
MaintenanceTimedOutAsFailure ==
  Result(1, Some(<<"Maintenance script timed out after 10 minutes">>))

\* lines 184-190
MaintenanceTimedOut ==
  Result(124, Some(<<"Maintenance script timed out after 10 minutes">>))

\* a wait that takes the script for finished without looking at the file
MaintenanceExitCodeFoundAtOnce(file) == TRUE

\* await file.exists(), lines 176-178
MaintenanceExitCodeFound(file) == file # Absent

\* runMaintenanceScript, lines 173-190: one round of the wait loop, and the
\* timeout once attempts reaches maxAttempts; attempts is a local of the call
\* and is forgotten when the loop is left
MaintenanceWait(r) ==
  /\ opc[r] = "maintenanceWait"
  /\ IF MaintenanceExitCodeFound(files[cfg[r].maintenanceExitCodePath])
     THEN /\ opc' = [opc EXCEPT ![r] = "maintenanceRead"]
          /\ attempts' = [attempts EXCEPT ![r] = 0]
          /\ UNCHANGED maintenanceResult
     ELSE IF attempts[r] + 1 >= MaxAttempts
     THEN /\ MaintenanceReturns(r, MaintenanceTimedOut)
          /\ attempts' = [attempts EXCEPT ![r] = 0]
     ELSE /\ attempts' = [attempts EXCEPT ![r] = @ + 1]
          /\ UNCHANGED <<opc, maintenanceResult>>
  /\ UNCHANGED <<serveVars, launcherVars, logReads, windowChecks, sandboxVars, cfg, probes, parsed, devResult,
                 cmds, cmdResults, posts, responses, exited>>

\* runMaintenanceScript, lines 192-195: the file is read and parsed
MaintenanceRead(r) ==
  /\ opc[r] = "maintenanceRead"
  /\ LET file == files[cfg[r].maintenanceExitCodePath]
     IN  IF file = Absent
         THEN /\ MaintenanceReturns(r, MaintenanceThrew("ENOENT"))
              /\ UNCHANGED parsed
         ELSE /\ parsed' = [parsed EXCEPT ![r] = ParseInt(Trim(file.chars))]
              /\ opc' = [opc EXCEPT ![r] = "maintenanceRemove"]
              /\ UNCHANGED maintenanceResult
  /\ UNCHANGED <<serveVars, launcherVars, logReads, windowChecks, sandboxVars, cfg, probes, attempts, devResult,
                 cmds, cmdResults, posts, responses, exited>>

\* a removal that leaves the file where it is
RemoveFileSkipped(file) == file

\* rm -f of an exit-code file, lines 197 and 323
RemoveFile(file) == Absent

\* runMaintenanceScript, lines 197-209 and 233: rm -f, then the NaN check, the
\* zero exit code, or on to the error log; exitCode is a local of the call
MaintenanceRemove(r) ==
  /\ opc[r] = "maintenanceRemove"
  /\ files' = [files EXCEPT ![cfg[r].maintenanceExitCodePath] = RemoveFile(@)]
  /\ IF parsed[r] = Null
     THEN /\ MaintenanceReturns(
                 r, Result(1, Some(<<"Maintenance script exit code missing or invalid">>)))
          /\ UNCHANGED parsed
     ELSE IF parsed[r].value = 0
     THEN /\ MaintenanceReturns(r, Result(0, Null))
          /\ parsed' = [parsed EXCEPT ![r] = Null]
     ELSE /\ opc' = [opc EXCEPT ![r] = "maintenanceErrorLog"]
          /\ UNCHANGED <<maintenanceResult, parsed>>
  /\ UNCHANGED <<serveVars, launcherVars, logReads, windowChecks, sessionState, remote, cfg, probes, attempts,
                 devResult, cmds, cmdResults, posts, responses, exited>>

\* runMaintenanceScript, lines 209-231: the error message of a non-zero exit
MaintenanceErrorLog(r) ==
  /\ opc[r] = "maintenanceErrorLog"
  /\ \E read \in ErrorLogReads :
       /\ logReads' = [logReads EXCEPT ![r] = Append(@, read)]
       /\ MaintenanceReturns(r, Result(parsed[r].value,
                                       Some(ErrorMessage(ErrorDetails(read), "Maintenance",
                                                         parsed[r].value))))
  /\ parsed' = [parsed EXCEPT ![r] = Null]
  /\ UNCHANGED <<serveVars, launcherVars, windowChecks, sandboxVars, cfg, probes, attempts, devResult,
                 cmds, cmdResults, posts, responses, exited>>

DevResult(error) == [error |-> error]

\* the catch of lines 356-362
DevThrew(message) ==
  DevResult(Some(<<"Dev script execution failed: ", message>>))

\* startDevScript, lines 291-302: the early return, or the command typed into
\* the dev window, which starts the script and its tee
StartDevScript(r) ==
  /\ opc[r] = "startDevScript"
  /\ IF ~cfg[r].hasDevScript
     THEN /\ devResult' = [devResult EXCEPT ![r] = DevResult(Null)]
          /\ opc' = [opc EXCEPT ![r] = "report"]
          /\ UNCHANGED <<cmds, cmdResults, remote, files>>
     ELSE /\ cmds' = [cmds EXCEPT
                        ![r] = Append(@, TmuxCmd("send-keys", cfg[r].devWindowName))]
          /\ \E outcome \in TmuxOutcomes :
               /\ cmdResults' = [cmdResults EXCEPT ![r] = Append(@, outcome)]
               /\ IF outcome = "ok"
                  THEN /\ remote' = [remote EXCEPT
                                       ![r].dev = "running",
                                       ![r].devRan = files[cfg[r].devScriptPath]]
                       /\ files' = [files EXCEPT
                                      ![cfg[r].devErrorLogPath] = TextFile(<< >>)]
                       /\ opc' = [opc EXCEPT ![r] = "devWindowCheck"]
                       /\ UNCHANGED devResult
                  ELSE /\ devResult' =
                            [devResult EXCEPT ![r] = DevThrew("tmux send-keys failed")]
                       /\ opc' = [opc EXCEPT ![r] = "report"]
                       /\ UNCHANGED <<remote, files>>
  /\ UNCHANGED <<serveVars, launcherVars, logReads, windowChecks, sessionState, cfg, probes, attempts, parsed,
                 maintenanceResult, posts, responses, exited>>

\* the line tmux list-windows prints for a window
WindowLine(name) == <<"1: ">> \o name \o <<"* (1 panes) [80x24]", "\n">>

RECURSIVE ListWindowsText(_, _)
\* the text tmux list-windows prints for a session with the windows ws
ListWindowsText(order, ws) ==
  IF order = << >> THEN << >>
  ELSE (IF Head(order) \in ws THEN WindowLine(Head(order)) ELSE << >>)
         \o ListWindowsText(Tail(order), ws)

\* what tmux list-windows may print: it fails, or it lists the windows the
\* session has at that moment
ListWindowsOutputs == { [kind |-> "fails"] } \cup
  { [kind |-> "ok", names |-> ws, text |-> ListWindowsText(WindowOrder, ws)] :
      ws \in SUBSET WindowNames }

\* startDevScript, lines 304-309
DevWindowCheck(r) ==
  /\ opc[r] = "devWindowCheck"
  /\ cmds' = [cmds EXCEPT ![r] = Append(@, TmuxCmd("list-windows", "cmux"))]
  /\ \E output \in ListWindowsOutputs :
       /\ cmdResults' = [cmdResults EXCEPT ![r] = Append(@, output.kind)]
       /\ windowChecks' = [windowChecks EXCEPT ![r] = Append(@, output)]
       /\ IF output.kind = "fails"
          THEN /\ devResult' =
                    [devResult EXCEPT ![r] = DevThrew("tmux list-windows failed")]
               /\ opc' = [opc EXCEPT ![r] = "report"]
          ELSE IF ~Includes(output, << cfg[r].devWindowName >>)
          THEN /\ devResult' =
                    [devResult EXCEPT
                       ![r] = DevResult(Some(<<"Dev window not found after starting script">>))]
               /\ opc' = [opc EXCEPT ![r] = "report"]
          ELSE /\ opc' = [opc EXCEPT ![r] = "devEarlyExitCheck"]
               /\ UNCHANGED devResult
  /\ UNCHANGED <<serveVars, launcherVars, logReads, sandboxVars, cfg, probes, attempts, parsed,
                 maintenanceResult, posts, responses, exited>>

\* a check that never finds the exit-code file
DevExitCodeFoundNever(file) == FALSE

\* await exitCodeFile.exists(), line 318
DevExitCodeFound(file) == file # Absent

\* a startDevScript that keeps checking until the exit-code file appears
AfterDevStartedKeepsWatching == "devEarlyExitCheck"

\* lines 354-355 and 380-387: startDevScript returns and main goes on to the
\* report
AfterDevStarted == "report"

\* startDevScript, lines 314-318 and 354-355: the one check of the exit-code file
DevEarlyExitCheck(r) ==
  /\ opc[r] = "devEarlyExitCheck"
  /\ IF DevExitCodeFound(files[cfg[r].devExitCodePath])
     THEN /\ opc' = [opc EXCEPT ![r] = "devRead"]
          /\ UNCHANGED devResult
     ELSE /\ devResult' = [devResult EXCEPT ![r] = DevResult(Null)]
          /\ opc' = [opc EXCEPT ![r] = AfterDevStarted]
  /\ UNCHANGED <<serveVars, launcherVars, logReads, windowChecks, sandboxVars, cfg, probes, attempts, parsed,
                 maintenanceResult, cmds, cmdResults, posts, responses, exited>>

\* startDevScript, lines 319-321
DevRead(r) ==
  /\ opc[r] = "devRead"
  /\ LET file == files[cfg[r].devExitCodePath]
     IN  IF file = Absent
         THEN /\ devResult' = [devResult EXCEPT ![r] = DevThrew("ENOENT")]
              /\ opc' = [opc EXCEPT ![r] = "report"]
              /\ UNCHANGED parsed
         ELSE /\ parsed' = [parsed EXCEPT ![r] = ParseInt(Trim(file.chars))]
              /\ opc' = [opc EXCEPT ![r] = "devRemove"]
              /\ UNCHANGED devResult
  /\ UNCHANGED <<serveVars, launcherVars, logReads, windowChecks, sandboxVars, cfg, probes, attempts,
                 maintenanceResult, cmds, cmdResults, posts, responses, exited>>

\* a check that takes every exit code for a failure
DevFailedOnAnyCode(exitCode) == TRUE

\* exitCode !== 0, line 330
DevFailed(exitCode) == exitCode # 0

\* startDevScript, lines 323-330 and 354-355
DevRemove(r) ==
  /\ opc[r] = "devRemove"
  /\ files' = [files EXCEPT ![cfg[r].devExitCodePath] = RemoveFile(@)]
  /\ IF parsed[r] = Null
     THEN /\ devResult' =
               [devResult EXCEPT
                  ![r] = DevResult(Some(<<"Dev script exit code missing or invalid">>))]
          /\ opc' = [opc EXCEPT ![r] = "report"]
          /\ UNCHANGED parsed
     ELSE IF ~DevFailed(parsed[r].value)
     THEN /\ devResult' = [devResult EXCEPT ![r] = DevResult(Null)]
          /\ opc' = [opc EXCEPT ![r] = "report"]
          /\ parsed' = [parsed EXCEPT ![r] = Null]
     ELSE /\ opc' = [opc EXCEPT ![r] = "devErrorLog"]
          /\ UNCHANGED <<devResult, parsed>>
  /\ UNCHANGED <<serveVars, launcherVars, logReads, windowChecks, sessionState, remote, cfg, probes, attempts,
                 maintenanceResult, cmds, cmdResults, posts, responses, exited>>

\* startDevScript, lines 330-351
DevErrorLog(r) ==
  /\ opc[r] = "devErrorLog"
  /\ \E read \in ErrorLogReads :
       /\ logReads' = [logReads EXCEPT ![r] = Append(@, read)]
       /\ devResult' =
            [devResult EXCEPT
               ![r] = DevResult(Some(ErrorMessage(ErrorDetails(read), "Dev",
                                                  parsed[r].value)))]
  /\ parsed' = [parsed EXCEPT ![r] = Null]
  /\ opc' = [opc EXCEPT ![r] = "report"]
  /\ UNCHANGED <<serveVars, launcherVars, windowChecks, sandboxVars, cfg, probes, attempts,
                 maintenanceResult, cmds, cmdResults, posts, responses, exited>>

\* an exit code that looks at the maintenance stage only
HasErrorOfMaintenanceOnly(m, d) == Truthy(m.error)

\* Boolean(maintenanceResult.error || devResult.error), line 387
HasError(m, d) == Truthy(m.error) \/ Truthy(d.error)

\* a report that is attempted whatever the configuration
SkipsReportWithoutErrorOnly(c, maintenanceError, devError) ==
  ~Truthy(maintenanceError) /\ ~Truthy(devError)

\* reportErrorToConvex, lines 245-253: the two early returns
SkipsReport(c, maintenanceError, devError) ==
  \/ c.taskRunJwt = << >>
  \/ c.convexUrl = << >>
  \/ (~Truthy(maintenanceError) /\ ~Truthy(devError))

\* a body that always carries both fields
ReportBodyWithBothFields(maintenanceError, devError) ==
  [ k \in {"maintenanceError", "devError"} |->
      LET e == IF k = "maintenanceError" THEN maintenanceError ELSE devError
      IN  IF Truthy(e) THEN e.value ELSE << >> ]

\* reportErrorToConvex, lines 258-264: the JSON body
ReportBody(maintenanceError, devError) ==
  LET keys == { k \in {"maintenanceError", "devError"} :
                  Truthy(IF k = "maintenanceError" THEN maintenanceError
                         ELSE devError) }
  IN  [ k \in keys |->
          IF k = "maintenanceError" THEN maintenanceError.value
          ELSE devError.value ]

\* lines 387-400, with reportErrorToConvex up to its fetch (lines 245-273)
Report(r) ==
  /\ opc[r] = "report"
  /\ LET m == maintenanceResult[r]
         d == devResult[r]
     IN  IF HasError(m, d) /\ ~SkipsReport(cfg[r], m.error, d.error)
         THEN /\ posts' = [posts EXCEPT
                             ![r] = Append(@, ReportBody(m.error, d.error))]
              /\ opc' = [opc EXCEPT ![r] = "awaitResponse"]
              /\ UNCHANGED <<exited, responses>>
         ELSE /\ Exit(r, IF HasError(m, d) THEN 1 ELSE 0)
              /\ UNCHANGED <<posts, responses>>
  /\ UNCHANGED <<serveVars, launcherVars, logReads, windowChecks, sandboxVars, cfg, probes, attempts, parsed,
                 maintenanceResult, devResult, cmds, cmdResults>>

\* what the fetch of line 266 may do
FetchOutcomes == {"ok", "notOk", "throws"}

\* a report that is sent again when the request could not be made
AfterFetchRetriesWhenThrown(outcome) ==
  IF outcome = "throws" THEN "report" ELSE "exit"

\* a report that is sent again until the server accepts it
AfterFetchRetries(outcome) == IF outcome = "ok" THEN "exit" ELSE "report"

\* reportErrorToConvex, lines 275-287: every outcome of the fetch is logged
\* only, and main goes on to process.exit
AfterFetch(outcome) == "exit"

\* reportErrorToConvex, lines 275-287, then lines 395-400
AwaitResponse(r) ==
  /\ opc[r] = "awaitResponse"
  /\ \E outcome \in FetchOutcomes :
       /\ responses' = [responses EXCEPT ![r] = Append(@, outcome)]
       /\ IF AfterFetch(outcome) = "exit"
          THEN Exit(r, IF HasError(maintenanceResult[r], devResult[r]) THEN 1 ELSE 0)
          ELSE /\ opc' = [opc EXCEPT ![r] = AfterFetch(outcome)]
               /\ UNCHANGED exited
  /\ UNCHANGED <<serveVars, launcherVars, logReads, windowChecks, sandboxVars, cfg, probes, attempts, parsed,
                 maintenanceResult, devResult, cmds, cmdResults, posts>>

\* ------------------------------------------------------------------------
\* startScreenshotCollection.ts: the VS Code serve-web supervisor
\* ------------------------------------------------------------------------

\* rounds of waitForSocket before its 15 s deadline passes (100 ms apart)
MaxSocketPolls == 2

\* probes of warmUpVSCodeServeWeb before its 10 s deadline passes (500 ms apart)
MaxWarmUpProbes == 2

\* calls of stopVSCodeServeWeb with one handle
MaxStops == 2

\* the calls of ensureVSCodeServeWeb; the handle a call returns is named by it
Calls == {1, 2}

\* stopVSCodeServeWeb(null, logger)
NullHandle == 0

LOCAL_VSCODE_HOST == "cmux-vscode.local"

\* the lookups of resolveVSCodeExecutable, in order, the shell lookup last
Lookups(p) ==
  IF p = "win32"
  THEN << "where code.cmd", "where code.exe", "where code", "$SHELL -lc" >>
  ELSE << "/usr/bin/env which code", "$SHELL -lc" >>

\* the first non-empty line a lookup printed
Candidate(lookup) == "code found by " \o lookup

RECURSIVE FirstCandidate(_, _)
\* lines 414-456: the first lookup, in order, that prints a candidate; hits
\* are the lookups that do
FirstCandidate(lookups, hits) ==
  IF lookups = << >> THEN Null
  ELSE IF Head(lookups) \in hits THEN Some(Candidate(Head(lookups)))
  ELSE FirstCandidate(Tail(lookups), hits)

\* a resolution that looks the executable up on every call
ResolveVSCodeExecutableAgain(cached, p, hits) == FirstCandidate(Lookups(p), hits)

\* resolveVSCodeExecutable, lines 400-457
ResolveVSCodeExecutable(cached, p, hits) ==
  IF cached # Null THEN cached ELSE FirstCandidate(Lookups(p), hits)

RECURSIVE RunUntilHit(_, _)
\* lines 414-454: the lookups that are run, in order, up to the first one
\* that prints a candidate, each with whether it did
RunUntilHit(lookups, hits) ==
  IF lookups = << >> THEN << >>
  ELSE IF Head(lookups) \in hits
  THEN << [lookup |-> Head(lookups), found |-> TRUE] >>
  ELSE << [lookup |-> Head(lookups), found |-> FALSE] >>
         \o RunUntilHit(Tail(lookups), hits)

\* lines 401-403: no lookup is run when a path is cached
LookupsRun(cached, p, hits) ==
  IF cached # Null THEN << >> ELSE RunUntilHit(Lookups(p), hits)

\* createSocketPath, lines 539-542, for process.pid 7
CreateSocketPath(now) == "/tmp/cmux-vscode-7-" \o ToString(now) \o ".sock"

\* Date.now() of a call: the calls are made in different milliseconds
SocketNow(c) == 1000 + c

\* a socket file left behind by an earlier worker process (pid 5)
StaleSocketPath == "/tmp/cmux-vscode-5-0.sock"

NoChild ==
  [state |-> "none", killed |-> FALSE, exitCode |-> FALSE, signalCode |-> FALSE,
   listened |-> FALSE, signals |-> 0]

\* child.kill(): the signal is sent and child.killed is set; a child that
\* has exited has no handle left, and kill() does nothing
Kill(ch) ==
  IF ch.state = "running" THEN [ch EXCEPT !.killed = TRUE, !.signals = @ + 1]
  ELSE ch

\* a catch block that leaves the child running
CatchKillsNever(ch) == FALSE

\* the guard of the kill in the catch of ensureVSCodeServeWeb, line 321;
\* exitCode is TRUE when child.exitCode is not null
CatchKills(ch) == ch.state # "none" /\ ~ch.killed /\ ~ch.exitCode

\* a guard that does not look at child.killed
StopKillsWhileNotExited(ch) == ~(ch.exitCode \/ ch.signalCode)

\* the guard of the kill in stopVSCodeServeWeb, line 370
StopKills(ch) == ~(ch.killed \/ ch.exitCode \/ ch.signalCode)

\* a supervisor that tries to launch on every platform
UnsupportedPlatformNowhere(p) == FALSE

\* process.platform === "win32", line 245
UnsupportedPlatform(p) == p = "win32"

\* process.platform !== "win32", line 390: the platforms on which
\* getVSCodeExecutable checks that the file can be executed
ChecksAccess(p) == p # "win32"

\* a catch block that leaves the cache as it finds it
CacheAfterCleanupKept(cache) == cache

\* the catch of ensureVSCodeServeWeb, lines 336-337
CacheAfterCleanup(cache) == Null

\* a call has returned, or is stuck in a warm-up request for ever
Settled(c) == epc[c] \in {"returnedNull", "returnedHandle", "hung"}

\* ensureVSCodeServeWeb, line 237, with resolveVSCodeExecutable (lines 400-457);
\* the callers make one call at a time
EnsureVSCodeServeWeb(c) ==
  /\ epc[c] = "call"
  /\ \A d \in Calls : d < c => Settled(d)
  /\ \E hits \in SUBSET { Lookups(platform)[i] : i \in DOMAIN Lookups(platform) } :
       LET found == ResolveVSCodeExecutable(resolvedVSCodeExecutable, platform, hits)
       IN  /\ resolvedVSCodeExecutable' = found
           /\ lookupsRun' =
                [lookupsRun EXCEPT
                   ![c] = LookupsRun(resolvedVSCodeExecutable, platform, hits)]
           /\ executable' = [executable EXCEPT ![c] = found]
           /\ epc' = [epc EXCEPT
                        ![c] = IF found = Null THEN "returnedNull" ELSE "access"]
  /\ UNCHANGED <<platform, warmUps, waiter, currentServeWebBaseUrl, currentServeWebSocketPath,
                 socketPath, polls, child, stops, unlinks, socketFiles>>
  /\ UNCHANGED <<launcherVars, sandboxVars, orchVars>>

\* getVSCodeExecutable, lines 389-397, then ensureVSCodeServeWeb, lines 238-252
EnsureAccess(c) ==
  /\ epc[c] = "access"
  /\ \E accessible \in BOOLEAN, now \in {SocketNow(c)} :
       IF ChecksAccess(platform) /\ ~accessible
       THEN /\ epc' = [epc EXCEPT ![c] = "returnedNull"]
            /\ UNCHANGED socketPath
       ELSE IF UnsupportedPlatform(platform)
       THEN /\ epc' = [epc EXCEPT ![c] = "returnedNull"]
            /\ UNCHANGED socketPath
       ELSE /\ socketPath' = [socketPath EXCEPT ![c] = CreateSocketPath(now)]
            /\ epc' = [epc EXCEPT ![c] = "removeStaleSocket"]
  /\ UNCHANGED <<platform, lookupsRun, warmUps, waiter, resolvedVSCodeExecutable, currentServeWebBaseUrl,
                 currentServeWebSocketPath, executable, polls, child, stops,
                 unlinks, socketFiles>>
  /\ UNCHANGED <<launcherVars, sandboxVars, orchVars>>

\* removeStaleSocket, lines 544-559
RemoveStaleSocket(c) ==
  /\ epc[c] = "removeStaleSocket"
  /\ socketFiles' = socketFiles \ {socketPath[c]}
  /\ epc' = [epc EXCEPT ![c] = "spawn"]
  /\ UNCHANGED <<platform, lookupsRun, warmUps, waiter, resolvedVSCodeExecutable, currentServeWebBaseUrl,
                 currentServeWebSocketPath, executable, socketPath, polls, child,
                 stops, unlinks>>
  /\ UNCHANGED <<launcherVars, sandboxVars, orchVars>>

\* ensureVSCodeServeWeb, lines 263-300: spawn, which may throw, and the handlers
Spawn(c) ==
  /\ epc[c] = "spawn"
  /\ \E throws \in BOOLEAN :
       IF throws
       THEN /\ epc' = [epc EXCEPT ![c] = "cleanup"]
            /\ UNCHANGED child
       ELSE /\ child' = [child EXCEPT ![c] = [NoChild EXCEPT !.state = "running"]]
            /\ epc' = [epc EXCEPT ![c] = "waitForSocket"]
  /\ UNCHANGED <<platform, lookupsRun, warmUps, waiter, resolvedVSCodeExecutable, currentServeWebBaseUrl,
                 currentServeWebSocketPath, executable, socketPath, polls, stops,
                 unlinks, socketFiles>>
  /\ UNCHANGED <<launcherVars, sandboxVars, orchVars>>

\* the catch of ensureVSCodeServeWeb up to its await, lines 319-332
CatchKill(c) ==
  /\ child' = [child EXCEPT ![c] = IF CatchKills(@) THEN Kill(@) ELSE @]
  /\ epc' = [epc EXCEPT ![c] = "cleanup"]
  /\ polls' = [polls EXCEPT ![c] = 0]

\* waitForSocket, lines 561-585, one round; then lines 304-306 when the socket
\* is there, or the catch when the deadline has passed or access failed
WaitForSocket(c) ==
  /\ epc[c] = "waitForSocket"
  /\ \E accessFails \in BOOLEAN :
       IF accessFails
       THEN /\ CatchKill(c)
            /\ UNCHANGED <<currentServeWebBaseUrl, currentServeWebSocketPath>>
       ELSE IF socketPath[c] \in socketFiles
       THEN /\ currentServeWebSocketPath' = Some(socketPath[c])
            /\ currentServeWebBaseUrl' = Some("http://" \o LOCAL_VSCODE_HOST)
            /\ epc' = [epc EXCEPT ![c] = "warmUp"]
            /\ polls' = [polls EXCEPT ![c] = 0]
            /\ UNCHANGED child
       ELSE IF polls[c] + 1 >= MaxSocketPolls
       THEN /\ CatchKill(c)
            /\ UNCHANGED <<currentServeWebBaseUrl, currentServeWebSocketPath>>
       ELSE /\ polls' = [polls EXCEPT ![c] = @ + 1]
            /\ UNCHANGED <<epc, child, currentServeWebBaseUrl,
                           currentServeWebSocketPath>>
  /\ UNCHANGED <<platform, lookupsRun, warmUps, waiter, resolvedVSCodeExecutable, executable, socketPath,
                 stops, unlinks, socketFiles>>
  /\ UNCHANGED <<launcherVars, sandboxVars, orchVars>>

\* the catch of ensureVSCodeServeWeb after its await, lines 331-338
Cleanup(c) ==
  /\ epc[c] = "cleanup"
  /\ socketFiles' = socketFiles \ {socketPath[c]}
  /\ currentServeWebBaseUrl' = CacheAfterCleanup(currentServeWebBaseUrl)
  /\ currentServeWebSocketPath' = CacheAfterCleanup(currentServeWebSocketPath)
  /\ epc' = [epc EXCEPT ![c] = "returnedNull"]
  /\ UNCHANGED <<platform, lookupsRun, warmUps, waiter, resolvedVSCodeExecutable, executable, socketPath,
                 polls, child, stops, unlinks>>
  /\ UNCHANGED <<launcherVars, sandboxVars, orchVars>>

\* what one warm-up request may do
ProbeOutcomes(ch) ==
  IF ch.state = "running" THEN {"completes", "error", "hangs"} ELSE {"error"}

\* a launch that is given up when the warm-up window ends
AfterWarmUpWindowFailsLaunch == "cleanup"

\* lines 493-495 and 312-318: the warning, and the return of the handle
AfterWarmUpWindow == "returnedHandle"

\* warmUpVSCodeServeWeb, lines 459-496, one probe; then the return of the
\* handle, lines 314-318
WarmUp(c) ==
  /\ epc[c] = "warmUp"
  /\ \E outcome \in ProbeOutcomes(child[c]) :
       IF outcome = "completes"
       THEN /\ epc' = [epc EXCEPT ![c] = "returnedHandle"]
            /\ polls' = [polls EXCEPT ![c] = 0]
            /\ warmUps' = [warmUps EXCEPT ![c] = "succeeded"]
       ELSE IF outcome = "hangs"
       THEN /\ epc' = [epc EXCEPT ![c] = "hung"]
            /\ UNCHANGED <<polls, warmUps>>
       ELSE IF polls[c] + 1 >= MaxWarmUpProbes
       THEN /\ epc' = [epc EXCEPT ![c] = AfterWarmUpWindow]
            /\ polls' = [polls EXCEPT ![c] = 0]
            /\ warmUps' = [warmUps EXCEPT ![c] = "gaveUp"]
       ELSE /\ polls' = [polls EXCEPT ![c] = @ + 1]
            /\ UNCHANGED <<epc, warmUps>>
  /\ UNCHANGED <<platform, lookupsRun, waiter, resolvedVSCodeExecutable,
                 currentServeWebBaseUrl, currentServeWebSocketPath, executable,
                 socketPath, child, stops, unlinks, socketFiles>>
  /\ UNCHANGED <<launcherVars, sandboxVars, orchVars>>

\* the server binds its socket
ServerListens(c) ==
  /\ child[c].state = "running"
  /\ ~child[c].listened
  /\ child' = [child EXCEPT ![c].listened = TRUE]
  /\ socketFiles' = socketFiles \cup {socketPath[c]}
  /\ UNCHANGED <<platform, lookupsRun, warmUps, waiter, resolvedVSCodeExecutable, currentServeWebBaseUrl,
                 currentServeWebSocketPath, epc, executable, socketPath, polls,
                 stops, unlinks>>
  /\ UNCHANGED <<launcherVars, sandboxVars, orchVars>>

\* an exit handler that forgets the socket path only
UrlAfterExitKept(url) == url

\* the exit handler, lines 293-296: a base URL that is cached is cleared
UrlAfterExit(url) == Null

\* the child exits, with a code or by a signal, and the "exit" handler of
\* lines 284-298 runs; a server that exits cleanly removes its socket
ChildExits(c) ==
  /\ child[c].state = "running"
  /\ \E bySignal \in BOOLEAN, leavesSocket \in BOOLEAN :
       /\ child' = [child EXCEPT
                      ![c].state = "exited",
                      ![c].exitCode = ~bySignal,
                      ![c].signalCode = bySignal]
       /\ socketFiles' =
            IF leavesSocket \/ ~child[c].listened THEN socketFiles
            ELSE socketFiles \ {socketPath[c]}
  /\ currentServeWebBaseUrl' = UrlAfterExit(currentServeWebBaseUrl)
  /\ currentServeWebSocketPath' = Null
  /\ UNCHANGED <<platform, lookupsRun, warmUps, waiter, resolvedVSCodeExecutable, epc, executable, socketPath,
                 polls, stops, unlinks>>
  /\ UNCHANGED <<launcherVars, sandboxVars, orchVars>>

\* stopVSCodeServeWeb, lines 342-380, with the handle a call returned
StopVSCodeServeWeb(h) ==
  /\ h \in Calls
  /\ epc[h] = "returnedHandle"
  /\ stops[h] < MaxStops
  /\ stops' = [stops EXCEPT ![h] = @ + 1]
  /\ currentServeWebBaseUrl' = Null
  /\ currentServeWebSocketPath' = Null
  /\ unlinks' = [unlinks EXCEPT ![h] = @ + 1]
  /\ child' = [child EXCEPT ![h] = IF StopKills(@) THEN Kill(@) ELSE @]
  /\ UNCHANGED <<platform, lookupsRun, warmUps, waiter, resolvedVSCodeExecutable, epc, executable, socketPath,
                 polls, socketFiles>>
  /\ UNCHANGED <<launcherVars, sandboxVars, orchVars>>

\* stopVSCodeServeWeb, lines 346-348, with a null handle
StopNullHandle ==
  /\ stops[NullHandle] < MaxStops
  /\ stops' = [stops EXCEPT ![NullHandle] = @ + 1]
  /\ UNCHANGED <<platform, lookupsRun, warmUps, waiter, resolvedVSCodeExecutable, currentServeWebBaseUrl,
                 currentServeWebSocketPath, epc, executable, socketPath, polls,
                 child, unlinks, socketFiles>>
  /\ UNCHANGED <<launcherVars, sandboxVars, orchVars>>

\* the unlink started by stopVSCodeServeWeb settles, lines 355-368
StopUnlinkSettles(h) ==
  /\ unlinks[h] > 0
  /\ unlinks' = [unlinks EXCEPT ![h] = @ - 1]
  /\ socketFiles' = socketFiles \ {socketPath[h]}
  /\ UNCHANGED <<platform, lookupsRun, warmUps, waiter, resolvedVSCodeExecutable, currentServeWebBaseUrl,
                 currentServeWebSocketPath, epc, executable, socketPath, polls,
                 child, stops>>
  /\ UNCHANGED <<launcherVars, sandboxVars, orchVars>>

\* rounds of waitForVSCodeServeWebBaseUrl's loop before a deadline passes
\* (200 ms apart)
MaxUrlWaitRounds == 2

\* no call of waitForVSCodeServeWebBaseUrl is made
WaiterOff == [pc |-> "off", rounds |-> 0, deadline |-> 0, result |-> Null]

\* a wait that never sees the URL
UrlReadyNever(url) == FALSE

\* if (currentServeWebBaseUrl), lines 217 and 223
UrlReady(url) == url # Null

\* the return of waitForVSCodeServeWebBaseUrl, lines 218, 224 and 229
WaiterReturns(url) == waiter' = [waiter EXCEPT !.pc = "returned", !.result = url]

\* waitForVSCodeServeWebBaseUrl, lines 214-226, up to its first await: the
\* timeout lets deadline rounds of the loop start before the deadline
WaitForVSCodeServeWebBaseUrl ==
  /\ waiter.pc = "call"
  /\ \E timeout \in 0..MaxUrlWaitRounds :
       IF UrlReady(currentServeWebBaseUrl)
       THEN WaiterReturns(currentServeWebBaseUrl)
       ELSE IF timeout = 0
       THEN WaiterReturns(currentServeWebBaseUrl)
       ELSE waiter' = [waiter EXCEPT !.pc = "sleeping", !.rounds = 1,
                                     !.deadline = timeout]
  /\ UNCHANGED <<platform, lookupsRun, warmUps, resolvedVSCodeExecutable,
                 currentServeWebBaseUrl, currentServeWebSocketPath, epc,
                 executable, socketPath, polls, child, stops, unlinks,
                 socketFiles>>
  /\ UNCHANGED <<launcherVars, sandboxVars, orchVars>>

\* waitForVSCodeServeWebBaseUrl, lines 222-229: the timer of line 226 fires
WaitForUrlWakes ==
  /\ waiter.pc = "sleeping"
  /\ IF waiter.rounds < waiter.deadline
     THEN IF UrlReady(currentServeWebBaseUrl)
          THEN WaiterReturns(currentServeWebBaseUrl)
          ELSE waiter' = [waiter EXCEPT !.rounds = @ + 1]
     ELSE WaiterReturns(currentServeWebBaseUrl)
  /\ UNCHANGED <<platform, lookupsRun, warmUps, resolvedVSCodeExecutable,
                 currentServeWebBaseUrl, currentServeWebSocketPath, epc,
                 executable, socketPath, polls, child, stops, unlinks,
                 socketFiles>>
  /\ UNCHANGED <<launcherVars, sandboxVars, orchVars>>

\* ------------------------------------------------------------------------
\* Specification of one launch and its orchestrator
\* ------------------------------------------------------------------------

Arguments ==
  [ maintenanceScript : ScriptTexts, devScript : ScriptTexts,
    convexUrl : CallbackValues, taskRunJwt : CallbackValues ]

NoArguments ==
  [ maintenanceScript |-> Null, devScript |-> Null, convexUrl |-> Null,
    taskRunJwt |-> Null ]

\* the state before any call: an empty runtime directory, no window
InitSandbox ==
  /\ files = [p \in Paths |-> Absent]
  /\ sessionState \in {"absent", "running"}
  /\ remote = [r \in Runs |-> IdleRemote]

InitOrchestrators ==
  /\ opc = [r \in Runs |-> "notStarted"]
  /\ cfg = [r \in Runs |-> NoConfig]
  /\ probes = [r \in Runs |-> 0]
  /\ attempts = [r \in Runs |-> 0]
  /\ parsed = [r \in Runs |-> Null]
  /\ maintenanceResult = [r \in Runs |-> NoResult]
  /\ devResult = [r \in Runs |-> NoResult]
  /\ cmds = [r \in Runs |-> << >>]
  /\ cmdResults = [r \in Runs |-> << >>]
  /\ posts = [r \in Runs |-> << >>]
  /\ responses = [r \in Runs |-> << >>]
  /\ logReads = [r \in Runs |-> << >>]
  /\ windowChecks = [r \in Runs |-> << >>]
  /\ exited = [r \in Runs |-> << >>]

\* a worker process that never calls the supervisor
InitServeWebOff ==
  /\ platform = "linux"
  /\ resolvedVSCodeExecutable = Null
  /\ currentServeWebBaseUrl = Null
  /\ currentServeWebSocketPath = Null
  /\ epc = [c \in Calls |-> "off"]
  /\ executable = [c \in Calls |-> Null]
  /\ socketPath = [c \in Calls |-> ""]
  /\ polls = [c \in Calls |-> 0]
  /\ child = [c \in Calls |-> NoChild]
  /\ stops = [h \in Calls \cup {NullHandle} |-> 0]
  /\ unlinks = [h \in Calls |-> 0]
  /\ socketFiles = {}
  /\ lookupsRun = [c \in Calls |-> << >>]
  /\ warmUps = [c \in Calls |-> "none"]
  /\ waiter = WaiterOff

\* one call of runMaintenanceAndDevScripts, with any arguments
Init ==
  /\ InitServeWebOff
  /\ \E a \in Arguments : args = [r \in Runs |-> IF r = 1 THEN a ELSE NoArguments]
  /\ lpc = [r \in Runs |-> IF r = 1 THEN "call" ELSE "off"]
  /\ runId = [r \in Runs |-> Null]
  /\ execCalls = [r \in Runs |-> 0]
  /\ execResult = [r \in Runs |-> Null]
  /\ InitSandbox
  /\ InitOrchestrators

Next ==
  \/ \E r \in Runs : RunMaintenanceAndDevScripts(r)
  \/ \E r \in Runs : ExecWriteScripts(r)
  \/ \E r \in Runs : ExecStartOrchestrator(r)
  \/ \E r \in Runs : ExecVerify(r)
  \/ \E r \in Runs : ExecFails(r)
  \/ SessionAppears
  \/ \E r \in Runs : RemoteMaintenanceExits(r)
  \/ \E r \in Runs : RemoteDevExits(r)
  \/ \E r \in Runs : WaitForTmuxSession(r)
  \/ \E r \in Runs : CreateMaintenanceWindow(r)
  \/ \E r \in Runs : CreateDevWindow(r)
  \/ \E r \in Runs : RunMaintenanceScript(r)
  \/ \E r \in Runs : MaintenanceWait(r)
  \/ \E r \in Runs : MaintenanceRead(r)
  \/ \E r \in Runs : MaintenanceRemove(r)
  \/ \E r \in Runs : MaintenanceErrorLog(r)
  \/ \E r \in Runs : StartDevScript(r)
  \/ \E r \in Runs : DevWindowCheck(r)
  \/ \E r \in Runs : DevEarlyExitCheck(r)
  \/ \E r \in Runs : DevRead(r)
  \/ \E r \in Runs : DevRemove(r)
  \/ \E r \in Runs : DevErrorLog(r)
  \/ \E r \in Runs : Report(r)
  \/ \E r \in Runs : AwaitResponse(r)

vars == <<launcherVars, sandboxVars, orchVars, serveVars>>

Spec == Init /\ [][Next]_vars

\* the orchestrator process of a run takes its next step; it is a running
\* process, so a step that stays possible is taken
OrchestratorStep(r) ==
  \/ WaitForTmuxSession(r)
  \/ CreateMaintenanceWindow(r)
  \/ CreateDevWindow(r)
  \/ RunMaintenanceScript(r)
  \/ MaintenanceWait(r)
  \/ MaintenanceRead(r)
  \/ MaintenanceRemove(r)
  \/ MaintenanceErrorLog(r)
  \/ StartDevScript(r)
  \/ DevWindowCheck(r)
  \/ DevEarlyExitCheck(r)
  \/ DevRead(r)
  \/ DevRemove(r)
  \/ DevErrorLog(r)
  \/ Report(r)
  \/ AwaitResponse(r)

FairSpec == Spec /\ \A r \in Runs : WF_vars(OrchestratorStep(r))

\* ------------------------------------------------------------------------
\* Specification of two launches into one sandbox
\* ------------------------------------------------------------------------

\* two calls of runMaintenanceAndDevScripts on the same instance, each with
\* its own texts and a configured callback
InitTwoRuns ==
  /\ InitServeWebOff
  /\ args \in [Runs -> { a \in Arguments : a.convexUrl # Null /\ a.taskRunJwt # Null }]
  /\ lpc = [r \in Runs |-> "call"]
  /\ runId = [r \in Runs |-> Null]
  /\ execCalls = [r \in Runs |-> 0]
  /\ execResult = [r \in Runs |-> Null]
  /\ files = [p \in Paths |-> Absent]
  /\ sessionState = "running"
  /\ remote = [r \in Runs |-> IdleRemote]
  /\ InitOrchestrators

\* the steps of the two launchers, interleaved
NextTwoRuns ==
  \/ \E r \in Runs : RunMaintenanceAndDevScripts(r)
  \/ \E r \in Runs : ExecWriteScripts(r)
  \/ \E r \in Runs : ExecStartOrchestrator(r)
  \/ \E r \in Runs : ExecVerify(r)
  \/ \E r \in Runs : ExecFails(r)

SpecTwoRuns == InitTwoRuns /\ [][NextTwoRuns]_vars

\* ------------------------------------------------------------------------
\* Specification of two launches and their orchestrators, up to the start of
\* the dev script
\* ------------------------------------------------------------------------

\* the arguments of the launch of run r: texts that name the run, no callback
LaunchArguments(r) ==
  [ maintenanceScript |-> Some(<<"make setup-", ToString(r), "\n">>),
    devScript |-> Some(<<"make dev-", ToString(r), "\n">>),
    convexUrl |-> Null,
    taskRunJwt |-> Null ]

\* two calls of runMaintenanceAndDevScripts on the same instance, each with
\* its own two script texts; the session exists
InitTwoLaunches ==
  /\ InitServeWebOff
  /\ args = [r \in Runs |-> LaunchArguments(r)]
  /\ lpc = [r \in Runs |-> "call"]
  /\ runId = [r \in Runs |-> Null]
  /\ execCalls = [r \in Runs |-> 0]
  /\ execResult = [r \in Runs |-> Null]
  /\ files = [p \in Paths |-> Absent]
  /\ sessionState = "running"
  /\ remote = [r \in Runs |-> IdleRemote]
  /\ InitOrchestrators

\* the steps of the two launchers and of the two orchestrators, interleaved,
\* while the maintenance scripts run: each orchestrator creates its windows,
\* types its maintenance command, waits, and types its dev command
NextTwoLaunches ==
  \/ \E r \in Runs : RunMaintenanceAndDevScripts(r)
  \/ \E r \in Runs : ExecWriteScripts(r)
  \/ \E r \in Runs : ExecStartOrchestrator(r)
  \/ \E r \in Runs : ExecVerify(r)
  \/ \E r \in Runs : ExecFails(r)
  \/ \E r \in Runs : WaitForTmuxSession(r)
  \/ \E r \in Runs : CreateMaintenanceWindow(r)
  \/ \E r \in Runs : CreateDevWindow(r)
  \/ \E r \in Runs : RunMaintenanceScript(r)
  \/ \E r \in Runs : MaintenanceWait(r)
  \/ \E r \in Runs : StartDevScript(r)

SpecTwoLaunches == InitTwoLaunches /\ [][NextTwoLaunches]_vars

\* ------------------------------------------------------------------------
\* Specification of the VS Code serve-web supervisor
\* ------------------------------------------------------------------------

\* a fresh worker process on either platform; no launch is requested
InitServeWeb ==
  /\ platform \in {"linux", "win32"}
  /\ resolvedVSCodeExecutable = Null
  /\ currentServeWebBaseUrl = Null
  /\ currentServeWebSocketPath = Null
  /\ epc = [c \in Calls |-> "call"]
  /\ executable = [c \in Calls |-> Null]
  /\ socketPath = [c \in Calls |-> ""]
  /\ polls = [c \in Calls |-> 0]
  /\ child = [c \in Calls |-> NoChild]
  /\ stops = [h \in Calls \cup {NullHandle} |-> 0]
  /\ unlinks = [h \in Calls |-> 0]
  /\ socketFiles \in {{}, {StaleSocketPath}}
  /\ lookupsRun = [c \in Calls |-> << >>]
  /\ warmUps = [c \in Calls |-> "none"]
  /\ waiter = WaiterOff
  /\ args = [r \in Runs |-> NoArguments]
  /\ lpc = [r \in Runs |-> "off"]
  /\ runId = [r \in Runs |-> Null]
  /\ execCalls = [r \in Runs |-> 0]
  /\ execResult = [r \in Runs |-> Null]
  /\ files = [p \in Paths |-> Absent]
  /\ sessionState = "absent"
  /\ remote = [r \in Runs |-> IdleRemote]
  /\ InitOrchestrators

NextServeWeb ==
  \/ \E c \in Calls : EnsureVSCodeServeWeb(c)
  \/ \E c \in Calls : EnsureAccess(c)
  \/ \E c \in Calls : RemoveStaleSocket(c)
  \/ \E c \in Calls : Spawn(c)
  \/ \E c \in Calls : WaitForSocket(c)
  \/ \E c \in Calls : Cleanup(c)
  \/ \E c \in Calls : WarmUp(c)
  \/ \E c \in Calls : ServerListens(c)
  \/ \E c \in Calls : ChildExits(c)
  \/ \E h \in Calls : StopVSCodeServeWeb(h)
  \/ StopNullHandle
  \/ \E h \in Calls : StopUnlinkSettles(h)

SpecServeWeb == InitServeWeb /\ [][NextServeWeb]_vars

\* ------------------------------------------------------------------------
\* Specification of one launch of serve-web and a caller that waits for it
\* ------------------------------------------------------------------------

\* a fresh worker process: one call of ensureVSCodeServeWeb, and one call of
\* waitForVSCodeServeWebBaseUrl made at any moment
InitOneCall ==
  /\ platform \in {"linux", "win32"}
  /\ resolvedVSCodeExecutable = Null
  /\ currentServeWebBaseUrl = Null
  /\ currentServeWebSocketPath = Null
  /\ epc = [c \in Calls |-> IF c = 1 THEN "call" ELSE "off"]
  /\ executable = [c \in Calls |-> Null]
  /\ socketPath = [c \in Calls |-> ""]
  /\ polls = [c \in Calls |-> 0]
  /\ child = [c \in Calls |-> NoChild]
  /\ stops = [h \in Calls \cup {NullHandle} |-> 0]
  /\ unlinks = [h \in Calls |-> 0]
  /\ socketFiles \in {{}, {StaleSocketPath}}
  /\ lookupsRun = [c \in Calls |-> << >>]
  /\ warmUps = [c \in Calls |-> "none"]
  /\ waiter = [WaiterOff EXCEPT !.pc = "call"]
  /\ args = [r \in Runs |-> NoArguments]
  /\ lpc = [r \in Runs |-> "off"]
  /\ runId = [r \in Runs |-> Null]
  /\ execCalls = [r \in Runs |-> 0]
  /\ execResult = [r \in Runs |-> Null]
  /\ files = [p \in Paths |-> Absent]
  /\ sessionState = "absent"
  /\ remote = [r \in Runs |-> IdleRemote]
  /\ InitOrchestrators

NextOneCall ==
  \/ NextServeWeb
  \/ WaitForVSCodeServeWebBaseUrl
  \/ WaitForUrlWakes

SpecOneCall == InitOneCall /\ [][NextOneCall]_vars

\* a call of ensureVSCodeServeWeb takes its next step; the worker is a running
\* process, so a continuation that is ready is run
EnsureStep(c) ==
  \/ EnsureVSCodeServeWeb(c)
  \/ EnsureAccess(c)
  \/ RemoveStaleSocket(c)
  \/ Spawn(c)
  \/ WaitForSocket(c)
  \/ Cleanup(c)
  \/ WarmUp(c)

FairSpecOneCall == SpecOneCall /\ \A c \in Calls : WF_vars(EnsureStep(c))

\* ------------------------------------------------------------------------
\* Properties of the orchestrator
\* ------------------------------------------------------------------------

\* C1: once the windows of a run with a dev task are created, the dev command
\* is typed into the dev window: it is typed eventually, and the orchestrator
\* is never past the return of runMaintenanceScript without having typed it,
\* whatever runMaintenanceScript returned.
C1_DevAlwaysAttempted ==
  /\ [](\A r \in Runs :
          ( /\ maintenanceResult[r] # NoResult
            /\ cfg[r].hasDevScript
            /\ opc[r] # "startDevScript" )
          => \E i \in DOMAIN cmds[r] :
               cmds[r][i] = [cmd |-> "send-keys", target |-> "dev"])
  /\ \A r \in Runs :
       ( /\ opc[r] \notin {"notStarted", "waitForTmuxSession",
                           "createMaintenanceWindow", "createDevWindow"}
         /\ (opc[r] = "exited" => maintenanceResult[r] # NoResult)
         /\ cfg[r].hasDevScript )
       ~> (\E i \in DOMAIN cmds[r] :
             cmds[r][i] = [cmd |-> "send-keys", target |-> "dev"])

\* the dev command was typed after the maintenance stage had timed out
C1_Witness ==
  /\ maintenanceResult[1] # NoResult
  /\ maintenanceResult[1].exitCode = 124
  /\ \E i \in DOMAIN cmds[1] : cmds[1][i] = [cmd |-> "send-keys", target |-> "dev"]

\* C2: a run that has exited has exit code 0 exactly when both stages
\* returned and neither returned an error string, and exit code 1 otherwise.
C2_ExitCode ==
  \A r \in Runs :
    exited[r] # << >> =>
      LET clean == /\ maintenanceResult[r] # NoResult
                   /\ devResult[r] # NoResult
                   /\ maintenanceResult[r].error \in {Null, [value |-> << >>]}
                   /\ devResult[r].error \in {Null, [value |-> << >>]}
      IN  exited[r] = IF clean THEN << 0 >> ELSE << 1 >>

\* a run in which only the dev stage failed has exited with code 1
C2_Witness ==
  /\ exited[1] = << 1 >>
  /\ maintenanceResult[1] = [exitCode |-> 0, error |-> Null]
  /\ devResult[1] # NoResult
  /\ devResult[1].error # Null

\* C3: a run makes at most one POST, and makes one only when a stage has
\* returned an error string.
C3_AtMostOnePost ==
  \A r \in Runs :
    /\ Len(posts[r]) <= 1
    /\ posts[r] # << >> =>
         /\ maintenanceResult[r] # NoResult
         /\ devResult[r] # NoResult
         /\ \/ maintenanceResult[r].error \notin {Null, [value |-> << >>]}
            \/ devResult[r].error \notin {Null, [value |-> << >>]}

\* a run has posted its one report, the server answered or not, and it exited
C3_Witness == Len(posts[1]) = 1 /\ exited[1] = << 1 >>

\* C4 as stated: a run that has exited after a stage returned an error string
\* has posted exactly one report, made after both stages returned, with the
\* fields of the stages that failed.
C4_ReportWheneverError ==
  \A r \in Runs :
    /\ posts[r] # << >> => maintenanceResult[r] # NoResult /\ devResult[r] # NoResult
    /\ ( /\ exited[r] # << >>
         /\ maintenanceResult[r] # NoResult
         /\ devResult[r] # NoResult
         /\ \/ maintenanceResult[r].error # Null
            \/ devResult[r].error # Null )
       => /\ Len(posts[r]) = 1
          /\ "maintenanceError" \in DOMAIN posts[r][1] <=> maintenanceResult[r].error # Null
          /\ "devError" \in DOMAIN posts[r][1] <=> devResult[r].error # Null

\* C4: a run that has exited after a stage returned an error string has posted
\* exactly one report when the callback URL and the token are both non-empty,
\* and none when either is empty; the report is made after both stages
\* returned and carries the error strings of the stages that failed, and no
\* other field.
C4_ReportWhenConfigured ==
  \A r \in Runs :
    /\ posts[r] # << >> => maintenanceResult[r] # NoResult /\ devResult[r] # NoResult
    /\ ( /\ exited[r] # << >>
         /\ maintenanceResult[r] # NoResult
         /\ devResult[r] # NoResult
         /\ \/ maintenanceResult[r].error # Null
            \/ devResult[r].error # Null )
       => IF cfg[r].convexUrl # << >> /\ cfg[r].taskRunJwt # << >>
          THEN /\ Len(posts[r]) = 1
               /\ "maintenanceError" \in DOMAIN posts[r][1]
                    <=> maintenanceResult[r].error # Null
               /\ "devError" \in DOMAIN posts[r][1] <=> devResult[r].error # Null
               /\ maintenanceResult[r].error # Null =>
                    posts[r][1].maintenanceError = maintenanceResult[r].error.value
               /\ devResult[r].error # Null =>
                    posts[r][1].devError = devResult[r].error.value
          ELSE posts[r] = << >>

\* maintenance exited with 3, the dev script kept running: one report with
\* maintenanceError only, and exit code 1
C4_Witness ==
  /\ exited[1] = << 1 >>
  /\ maintenanceResult[1] # NoResult
  /\ maintenanceResult[1].exitCode = 3
  /\ devResult[1] = [error |-> Null]
  /\ remote[1].dev = "running"
  /\ Len(posts[1]) = 1
  /\ DOMAIN posts[1][1] = {"maintenanceError"}

\* C5: the round of the wait loop that finds the exit-code file missing for
\* the MaxAttempts-th time makes runMaintenanceScript return exit code 124 and
\* the timeout message, and sends no command and leaves the remote script as
\* it is; the maintenance window is typed into once only, and a run that
\* timed out exits with code 1.
C5_TimeoutAbandonsWait ==
  /\ [][ \A r \in Runs :
           ( /\ MaintenanceWait(r)
             /\ attempts[r] = MaxAttempts - 1
             /\ files[cfg[r].maintenanceExitCodePath] = [kind |-> "absent"] )
           => /\ maintenanceResult'[r] =
                   [exitCode |-> 124,
                    error |-> [value |->
                      <<"Maintenance script timed out after 10 minutes">>]]
              /\ cmds'[r] = cmds[r]
              /\ remote'[r] = remote[r] ]_vars
  /\ [](\A r \in Runs :
          (maintenanceResult[r] # NoResult /\ maintenanceResult[r].exitCode = 124)
          => /\ Cardinality({ i \in DOMAIN cmds[r] :
                                cmds[r][i].target = "maintenance"
                                /\ cmds[r][i].cmd # "new-window" }) = 1
             /\ exited[r] # << >> => exited[r] = << 1 >>)

\* a run that timed out has exited while its maintenance script still runs
C5_Witness ==
  /\ maintenanceResult[1] # NoResult
  /\ maintenanceResult[1].exitCode = 124
  /\ exited[1] = << 1 >>
  /\ remote[1].maintenance = "running"

\* ------------------------------------------------------------------------
\* Properties of the launcher
\* ------------------------------------------------------------------------

\* C6: a call whose two texts are both absent or made of whitespace only
\* resolves without a call of instance.exec: no run identifier, no file, no
\* orchestrator, no tmux command, no POST.
C6_BlankTextsDoNothing ==
  \A r \in Runs :
    ( /\ lpc[r] \notin {"off", "call"}
      /\ \A text \in {args[r].maintenanceScript, args[r].devScript} :
           \/ text = Null
           \/ \A i \in DOMAIN text.value : text.value[i] \in {" ", "\n", "\t"} )
    => /\ lpc[r] = "resolved"
       /\ execCalls[r] = 0
       /\ runId[r] = Null
       /\ \A p \in Paths : files[p] = [kind |-> "absent"]
       /\ opc[r] = "notStarted"
       /\ cmds[r] = << >>
       /\ posts[r] = << >>

\* a call with a whitespace-only maintenance text and no dev text resolved
C6_Witness ==
  /\ lpc[1] = "resolved"
  /\ args[1].maintenanceScript = [value |-> <<" ", "\n">>]
  /\ args[1].devScript = Null
  /\ execCalls[1] = 0

\* C7 as stated: two runs whose orchestrators were started with different run
\* identifiers share no generated path (script files, orchestrator script,
\* exit-code files, log files).
C7_PathsDistinctAcrossRuns ==
  \A r1 \in Runs, r2 \in Runs :
    ( /\ r1 # r2
      /\ cfg[r1] # NoConfig
      /\ cfg[r2] # NoConfig
      /\ runId[r1] # runId[r2] )
    => LET generated(r) ==
             { orchestratorScriptPath(runId[r].value),
               orchestratorLogPath(runId[r].value),
               cfg[r].maintenanceExitCodePath, cfg[r].maintenanceErrorLogPath,
               cfg[r].devExitCodePath, cfg[r].devErrorLogPath }
             \cup (IF cfg[r].hasMaintenanceScript
                   THEN {cfg[r].maintenanceScriptPath} ELSE {})
             \cup (IF cfg[r].hasDevScript THEN {cfg[r].devScriptPath} ELSE {})
       IN  generated(r1) \cap generated(r2) = {}

\* ------------------------------------------------------------------------
\* Properties of the serve-web supervisor
\* ------------------------------------------------------------------------

\* C8: a call of stopVSCodeServeWeb with a handle leaves the cached base URL
\* and socket path null, signals the child exactly when the child is not
\* killed and has neither an exit code nor a signal code, and signals nothing
\* when the handle was stopped before; a call with a null handle changes
\* neither a child nor the cache nor a socket file; no call changes the
\* position of a caller.
C8_StopIsIdempotent ==
  [][ /\ \A h \in Calls :
           StopVSCodeServeWeb(h) =>
             /\ currentServeWebBaseUrl' = Null
             /\ currentServeWebSocketPath' = Null
             /\ child'[h].signals > child[h].signals
                  <=> (~child[h].killed /\ ~child[h].exitCode /\ ~child[h].signalCode)
             /\ child'[h].signals <= child[h].signals + 1
             /\ stops[h] >= 1 => child'[h].signals = child[h].signals
             /\ epc' = epc
      /\ StopNullHandle =>
           /\ child' = child
           /\ currentServeWebBaseUrl' = currentServeWebBaseUrl
           /\ currentServeWebSocketPath' = currentServeWebSocketPath
           /\ socketFiles' = socketFiles
           /\ epc' = epc ]_vars

\* a handle was stopped twice while its child, signalled once, still runs
C8_Witness ==
  /\ stops[1] = 2
  /\ child[1].signals = 1
  /\ child[1].state = "running"
  /\ currentServeWebBaseUrl = Null

\* C9 as stated: whenever a call of ensureVSCodeServeWeb returns null, the
\* cached base URL and socket path are null.
C9_NullReturnClearsCache ==
  [][ \A c \in Calls :
        (epc[c] # "returnedNull" /\ epc'[c] = "returnedNull")
        => /\ currentServeWebBaseUrl' = Null
           /\ currentServeWebSocketPath' = Null ]_vars

\* C9: no call of ensureVSCodeServeWeb raises: an executable that is not
\* resolved or cannot be executed makes the call return null with the cached
\* base URL and socket path unchanged; a spawn that throws and a socket wait
\* that fails lead into the catch block, from which the call returns null
\* with the cached base URL and socket path null.
C9_FailuresReturnNull ==
  [][ \A c \in Calls :
        /\ (EnsureVSCodeServeWeb(c) /\ executable'[c] = Null)
             => epc'[c] = "returnedNull"
        /\ (EnsureAccess(c) /\ socketPath'[c] = socketPath[c])
             => epc'[c] = "returnedNull"
        /\ (Spawn(c) /\ child'[c].state = "none") => epc'[c] = "cleanup"
        /\ (WaitForSocket(c) /\ epc'[c] \notin {"waitForSocket", "warmUp"})
             => epc'[c] = "cleanup"
        /\ (epc[c] = "cleanup" /\ epc'[c] # "cleanup") => epc'[c] = "returnedNull"
        /\ (epc[c] # "returnedNull" /\ epc'[c] = "returnedNull")
             => IF epc[c] = "cleanup"
                THEN /\ currentServeWebBaseUrl' = Null
                     /\ currentServeWebSocketPath' = Null
                ELSE /\ epc[c] \in {"call", "access"}
                     /\ currentServeWebBaseUrl' = currentServeWebBaseUrl
                     /\ currentServeWebSocketPath' = currentServeWebSocketPath ]_vars

\* the second call returned null after its spawn threw, while the server of
\* the first call still runs
C9_Witness ==
  /\ epc[1] = "returnedHandle"
  /\ child[1].state = "running"
  /\ epc[2] = "returnedNull"
  /\ socketPath[2] # ""
  /\ child[2].state = "none"
  /\ currentServeWebBaseUrl = Null

\* C10: on win32 no step of the supervisor spawns a child, creates or removes
\* a socket file or changes the cached base URL or socket path, and a call
\* goes from its start to the return of null only.
C10_Win32LaunchesNothing ==
  [][ platform = "win32" =>
        /\ child' = child
        /\ socketFiles' = socketFiles
        /\ currentServeWebBaseUrl' = currentServeWebBaseUrl
        /\ currentServeWebSocketPath' = currentServeWebSocketPath
        /\ \A c \in Calls : epc'[c] \in {"call", "access", "returnedNull"} ]_vars

\* on win32 a call resolved the executable and returned null, a stale socket
\* file being left where it was
C10_Witness ==
  /\ platform = "win32"
  /\ epc[1] = "returnedNull"
  /\ executable[1] # Null
  /\ socketFiles = {StaleSocketPath}

\* C11: the round of waitForSocket that finds no socket file when the
\* deadline has passed leads into the catch block and signals the child if it
\* still runs and was not signalled; the catch block then ends with no file
\* at the socket path, the cached base URL and socket path null, and the
\* return of null.
C11_SocketTimeoutCleansUp ==
  [][ \A c \in Calls :
        /\ ( /\ WaitForSocket(c)
             /\ socketPath[c] \notin socketFiles
             /\ polls[c] = MaxSocketPolls - 1 )
           => /\ epc'[c] = "cleanup"
              /\ IF child[c].state = "running" /\ ~child[c].killed
                 THEN /\ child'[c].killed
                      /\ child'[c].signals = child[c].signals + 1
                 ELSE child'[c] = child[c]
        /\ Cleanup(c)
           => /\ socketPath[c] \notin socketFiles'
              /\ currentServeWebBaseUrl' = Null
              /\ currentServeWebSocketPath' = Null
              /\ epc'[c] = "returnedNull" ]_vars

\* the server never bound its socket; the call signalled it and returned null
C11_Witness ==
  /\ epc[1] = "returnedNull"
  /\ child[1].state = "running"
  /\ child[1].killed
  /\ child[1].signals = 1
  /\ ~child[1].listened
  /\ socketPath[1] \notin socketFiles

\* C12 as stated: whenever the cached base URL or the cached socket path is
\* not null, the child that was spawned for the cached socket path has not
\* exited.
C12_CacheOnlyWhileChildRuns ==
  (currentServeWebBaseUrl # Null \/ currentServeWebSocketPath # Null)
  => /\ currentServeWebSocketPath # Null
     /\ \E c \in Calls :
          /\ socketPath[c] = currentServeWebSocketPath.value
          /\ child[c].state = "running"

\* C13 as stated: the exit of a child leaves no file at its socket path, the
\* unlink started by stopVSCodeServeWeb leaves no file at the socket path of
\* the handle, and after removeStaleSocket no socket file is left other than
\* those of children that still run.
C13_SocketRemovedOnEveryExitPath ==
  [][ \A c \in Calls :
        /\ ChildExits(c) => socketPath[c] \notin socketFiles'
        /\ StopUnlinkSettles(c) => socketPath[c] \notin socketFiles'
        /\ RemoveStaleSocket(c)
           => \A f \in socketFiles' :
                \E d \in Calls : socketPath[d] = f /\ child[d].state = "running" ]_vars

\* C14: a run has typed the dev command only if runMaintenanceScript has
\* returned: not while the orchestrator is in runMaintenanceScript or its
\* wait loop, and never before the maintenance command.
C14_DevAfterMaintenance ==
  \A r \in Runs :
    \A i \in DOMAIN cmds[r] :
      cmds[r][i] = [cmd |-> "send-keys", target |-> "dev"]
      => /\ maintenanceResult[r] # NoResult
         /\ opc[r] \notin {"runMaintenanceScript", "maintenanceWait", "maintenanceRead",
                           "maintenanceRemove", "maintenanceErrorLog"}
         /\ \A j \in DOMAIN cmds[r] :
              cmds[r][j] = [cmd |-> "send-keys", target |-> "maintenance"] => j < i

\* both commands were typed, and the maintenance script had finished
C14_Witness ==
  /\ \E i, j \in DOMAIN cmds[1] :
       /\ i < j
       /\ cmds[1][i] = [cmd |-> "send-keys", target |-> "maintenance"]
       /\ cmds[1][j] = [cmd |-> "send-keys", target |-> "dev"]
  /\ remote[1].maintenance = "finished"
  /\ maintenanceResult[1].exitCode = 3

\* C15: whatever the fetch does (an ok response, another response, a throw),
\* the orchestrator then exits with code 1, the code of a run with an error,
\* and makes no other POST: a run has at most one POST and one outcome.
C15_ReportIsBestEffort ==
  /\ [][ \A r \in Runs :
           Len(responses'[r]) > Len(responses[r])
           => /\ responses'[r][Len(responses'[r])] \in {"ok", "notOk", "throws"}
              /\ opc'[r] = "exited"
              /\ exited'[r] = << 1 >>
              /\ posts'[r] = posts[r] ]_vars
  /\ [](\A r \in Runs : Len(posts[r]) <= 1 /\ Len(responses[r]) <= Len(posts[r]))

\* the fetch threw, and the run exited with code 1 after its one POST
C15_Witness ==
  /\ responses[1] = << "throws" >>
  /\ Len(posts[1]) = 1
  /\ exited[1] = << 1 >>

\* C16: in a started run, a task whose text is absent or whitespace-only has
\* no script file, no tmux command aimed at its window, no command line
\* running, no wait or exit-code check by the orchestrator, and a result
\* without error.
C16_BlankTaskDoesNotExist ==
  \A r \in Runs :
    cfg[r] # NoConfig =>
      LET blank(text) ==
            \/ text = Null
            \/ \A i \in DOMAIN text.value : text.value[i] \in {" ", "\n", "\t"}
      IN  /\ blank(args[r].maintenanceScript)
             => /\ files["/var/tmp/cmux-scripts/maintenance.sh"] = [kind |-> "absent"]
                /\ \A i \in DOMAIN cmds[r] : cmds[r][i].target # "maintenance"
                /\ remote[r].maintenance = "idle"
                /\ opc[r] \notin {"maintenanceWait", "maintenanceRead",
                                  "maintenanceRemove", "maintenanceErrorLog"}
                /\ maintenanceResult[r] \in {NoResult, [exitCode |-> 0, error |-> Null]}
          /\ blank(args[r].devScript)
             => /\ files["/var/tmp/cmux-scripts/dev.sh"] = [kind |-> "absent"]
                /\ \A i \in DOMAIN cmds[r] : cmds[r][i].target \notin {"dev", "cmux"}
                /\ remote[r].dev = "idle"
                /\ opc[r] \notin {"devWindowCheck", "devEarlyExitCheck", "devRead",
                                  "devRemove", "devErrorLog"}
                /\ devResult[r] \in {NoResult, [error |-> Null]}

\* the maintenance text was whitespace only; the dev script was started and
\* the run exited with code 0
C16_Witness ==
  /\ args[1].maintenanceScript = [value |-> <<" ", "\n">>]
  /\ cmds[1] = << [cmd |-> "new-window", target |-> "dev"],
                  [cmd |-> "send-keys", target |-> "dev"],
                  [cmd |-> "list-windows", target |-> "cmux"] >>
  /\ remote[1].dev = "running"
  /\ exited[1] = << 0 >>

\* C17: a probe that finds the session, the final one included, is followed
\* by window creation; a probe that does not find it is followed by another
\* probe while fewer than MaxSessionProbes were made, and by exit code 1 when
\* it is the final one, no command having been issued; the probes are bounded.
C17_SessionWaitIsBounded ==
  /\ [][ \A r \in Runs :
           WaitForTmuxSession(r)
           => IF sessionState = "running"
              THEN opc'[r] = "createMaintenanceWindow" /\ exited'[r] = << >>
              ELSE IF probes[r] < MaxSessionProbes
              THEN probes'[r] = probes[r] + 1 /\ opc'[r] = opc[r] /\ exited'[r] = << >>
              ELSE opc'[r] = "exited" /\ exited'[r] = << 1 >> /\ cmds'[r] = << >> ]_vars
  /\ [](\A r \in Runs :
          /\ probes[r] <= MaxSessionProbes
          /\ (opc[r] = "exited" /\ cmds[r] = << >>)
             => /\ exited[r] = << 1 >>
                /\ remote[r].maintenance = "idle"
                /\ remote[r].dev = "idle")

\* the session never appeared and the run exited with code 1 without a command
C17_Witness ==
  /\ sessionState = "absent"
  /\ opc[1] = "exited"
  /\ exited[1] = << 1 >>
  /\ cmds[1] = << >>
  /\ probes[1] = MaxSessionProbes

\* C18: in the commands of a run no send-keys comes before a new-window, and
\* the window of the maintenance task is created before that of the dev task.
C18_WindowsBeforeScripts ==
  \A r \in Runs :
    \A i, j \in DOMAIN cmds[r] :
      i < j =>
        /\ ~(cmds[r][i].cmd = "send-keys" /\ cmds[r][j].cmd = "new-window")
        /\ ~( /\ cmds[r][i] = [cmd |-> "new-window", target |-> "dev"]
              /\ cmds[r][j] = [cmd |-> "new-window", target |-> "maintenance"] )

\* both windows were created, then both commands typed
C18_Witness ==
  /\ Len(cmds[1]) >= 4
  /\ cmds[1][1] = [cmd |-> "new-window", target |-> "maintenance"]
  /\ cmds[1][2] = [cmd |-> "new-window", target |-> "dev"]
  /\ cmds[1][3] = [cmd |-> "send-keys", target |-> "maintenance"]
  /\ cmds[1][4] = [cmd |-> "send-keys", target |-> "dev"]

\* C19: a new-window command that failed is the last command of its run: the
\* run has exited with code 1, has typed no command into a window, and no
\* command line runs.
C19_WindowFailureAborts ==
  \A r \in Runs :
    \A i \in DOMAIN cmds[r] :
      (cmds[r][i].cmd = "new-window" /\ cmdResults[r][i] = "fails")
      => /\ i = Len(cmds[r])
         /\ opc[r] = "exited"
         /\ exited[r] = << 1 >>
         /\ \A j \in DOMAIN cmds[r] : cmds[r][j].cmd = "new-window"
         /\ remote[r].maintenance = "idle"
         /\ remote[r].dev = "idle"
         /\ maintenanceResult[r] = NoResult
         /\ devResult[r] = NoResult

\* the maintenance window was created, the dev window was not: exit code 1
C19_Witness ==
  /\ cmds[1] = << [cmd |-> "new-window", target |-> "maintenance"],
                  [cmd |-> "new-window", target |-> "dev"] >>
  /\ cmdResults[1] = << "ok", "fails" >>
  /\ exited[1] = << 1 >>

\* C20 as stated: when the exit-code file has been read, content that is not
\* a string of digits once trimmed makes runMaintenanceScript return the
\* parse error at once, and only content that is a string of digits leads to
\* the ok result or on to the script-failure result.
C20_OnlyIntegersParse ==
  [][ \A r \in Runs :
        MaintenanceRemove(r)
        => LET text == Trim(files[cfg[r].maintenanceExitCodePath].chars)
               integer ==
                 /\ text # << >>
                 /\ \A i \in DOMAIN text :
                      text[i] \in {"0", "1", "2", "3", "4", "5", "6", "7", "8", "9"}
           IN  IF integer
               THEN \/ maintenanceResult'[r] = [exitCode |-> 0, error |-> Null]
                    \/ opc'[r] = "maintenanceErrorLog"
               ELSE maintenanceResult'[r] =
                      [exitCode |-> 1,
                       error |-> [value |->
                         <<"Maintenance script exit code missing or invalid">>]] ]_vars

\* C21 as stated: a parsed exit code of 0 gives no error; any other code gives
\* a failure whose error is the last 100 lines of the error log when the log
\* was read and is not empty, and the generic message when the log is
\* missing, empty or unreadable; the stage returns in every case.
C21_NonEmptyLogIsQuoted ==
  [][ \A r \in Runs :
        /\ (MaintenanceRemove(r) /\ parsed[r] = [value |-> 0])
           => maintenanceResult'[r] = [exitCode |-> 0, error |-> Null]
        /\ MaintenanceErrorLog(r)
           => LET read == logReads'[r][Len(logReads'[r])]
                  code == parsed[r].value
                  text == Trim(read.chars)
                  breaks == { i \in DOMAIN text : text[i] = "\n" }
                  from ==
                    IF Cardinality(breaks) < 100 THEN 1
                    ELSE 1 + CHOOSE i \in breaks :
                               Cardinality({ j \in breaks : j >= i }) = 100
              IN  /\ code # 0
                  /\ maintenanceResult'[r].exitCode = code
                  /\ maintenanceResult'[r].error =
                       IF read.kind = "text" /\ read.chars # << >>
                       THEN [value |-> SubSeq(text, from, Len(text))]
                       ELSE [value |-> <<"Maintenance script failed with exit code ",
                                         ToString(code)>>]
                  /\ opc'[r] = "startDevScript" ]_vars

\* C21: a parsed exit code of 0 gives no error; any other code gives a failure
\* with that code whose error is the last 100 lines of the trimmed error log
\* when the log was read and holds more than white space, and the generic
\* message when the log is missing, unreadable, empty or white space only;
\* the stage returns to main in every case.
C21_FailureQuotesLogTail ==
  [][ \A r \in Runs :
        /\ (MaintenanceRemove(r) /\ parsed[r] = [value |-> 0])
           => maintenanceResult'[r] = [exitCode |-> 0, error |-> Null]
        /\ MaintenanceErrorLog(r)
           => LET read == logReads'[r][Len(logReads'[r])]
                  code == parsed[r].value
                  text == IF read.kind = "text" THEN Trim(read.chars) ELSE << >>
                  breaks == { i \in DOMAIN text : text[i] = "\n" }
                  from ==
                    IF Cardinality(breaks) < 100 THEN 1
                    ELSE 1 + CHOOSE i \in breaks :
                               Cardinality({ j \in breaks : j >= i }) = 100
              IN  /\ code # 0
                  /\ maintenanceResult'[r].exitCode = code
                  /\ maintenanceResult'[r].error =
                       IF text # << >>
                       THEN [value |-> SubSeq(text, from, Len(text))]
                       ELSE [value |-> <<"Maintenance script failed with exit code ",
                                         ToString(code)>>]
                  /\ opc'[r] = "startDevScript" ]_vars

\* the script exited with 3 and its log had 101 lines: the error is the last
\* 100 of them, the first line being left out
C21_Witness ==
  /\ maintenanceResult[1] # NoResult
  /\ maintenanceResult[1].exitCode = 3
  /\ Len(logReads[1]) >= 1
  /\ logReads[1][1].kind = "text"
  /\ Len(logReads[1][1].chars) = 202
  /\ Len(maintenanceResult[1].error.value) = 199
  /\ maintenanceResult[1].error.value[1] = "l"

\* C22 as stated: when tmux list-windows prints the windows of a session that
\* has no window named "dev", whatever its other windows, startDevScript
\* returns the error "Dev window not found after starting script" at once and
\* makes no exit-code check.
C22_MissingDevWindowFails ==
  [][ \A r \in Runs :
        ( /\ DevWindowCheck(r)
          /\ windowChecks'[r][Len(windowChecks'[r])].kind = "ok"
          /\ << "dev" >> \notin windowChecks'[r][Len(windowChecks'[r])].names )
        => /\ devResult'[r] =
                [error |-> [value |-> <<"Dev window not found after starting script">>]]
           /\ opc'[r] = "report" ]_vars

\* C23 as stated: when the one check of the dev exit-code file finds the
\* file, startDevScript returns an error; when it does not find it,
\* startDevScript returns no error at once.
C23_ExitCodeFileMeansFailure ==
  [][ \A r \in Runs :
        /\ DevEarlyExitCheck(r)
           => IF files[cfg[r].devExitCodePath] = [kind |-> "absent"]
              THEN devResult'[r] = [error |-> Null] /\ opc'[r] = "report"
              ELSE opc'[r] = "devRead" /\ devResult'[r] = devResult[r]
        /\ ( /\ opc[r] \in {"devRead", "devRemove", "devErrorLog"}
             /\ devResult'[r] # devResult[r] )
           => devResult'[r].error # Null ]_vars

\* C23: when the one check of the dev exit-code file does not find the file,
\* startDevScript returns no error at once and main goes on to the report;
\* when it finds the file, the file is read and removed, and startDevScript
\* returns no error for the exit code 0, the error "Dev script exit code
\* missing or invalid" for content that does not parse, and for any other
\* code the tail of the trimmed error log, or the generic message when the
\* log is missing, unreadable or blank.
C23_EarlyExitCheck ==
  [][ \A r \in Runs :
        /\ DevEarlyExitCheck(r)
           => IF files[cfg[r].devExitCodePath] = [kind |-> "absent"]
              THEN devResult'[r] = [error |-> Null] /\ opc'[r] = "report"
              ELSE opc'[r] = "devRead" /\ devResult'[r] = devResult[r]
        /\ DevRemove(r)
           => /\ files'[cfg[r].devExitCodePath] = [kind |-> "absent"]
              /\ IF parsed[r] = Null
                 THEN /\ devResult'[r] =
                           [error |-> [value |->
                              <<"Dev script exit code missing or invalid">>]]
                      /\ opc'[r] = "report"
                 ELSE IF parsed[r].value = 0
                 THEN devResult'[r] = [error |-> Null] /\ opc'[r] = "report"
                 ELSE opc'[r] = "devErrorLog" /\ devResult'[r] = devResult[r]
        /\ DevErrorLog(r)
           => LET read == logReads'[r][Len(logReads'[r])]
                  text == IF read.kind = "text" THEN Trim(read.chars) ELSE << >>
                  breaks == { i \in DOMAIN text : text[i] = "\n" }
                  from ==
                    IF Cardinality(breaks) < 100 THEN 1
                    ELSE 1 + CHOOSE i \in breaks :
                               Cardinality({ j \in breaks : j >= i }) = 100
              IN  /\ parsed[r].value # 0
                  /\ opc'[r] = "report"
                  /\ devResult'[r].error =
                       IF text # << >>
                       THEN [value |-> SubSeq(text, from, Len(text))]
                       ELSE [value |-> <<"Dev script failed with exit code ",
                                         ToString(parsed[r].value)>>] ]_vars

\* the dev script had exited with 3 before the check: the run reported the
\* tail of its log
C23_Witness ==
  /\ remote[1].dev = "finished"
  /\ files[devExitCodePath(runId[1].value)] = Absent
  /\ devResult[1] = [error |-> [value |-> <<"+ exit 3", "\n", "boom">>]]
  /\ exited[1] = << 1 >>

\* C24: when the dev exit-code file that was read holds the integer 0,
\* startDevScript removes the file and returns no error, and main goes on to
\* the report; a run whose two stages returned no error has posted nothing and
\* exits with code 0 only.
C24_ZeroDevExitIsNoError ==
  /\ [][ \A r \in Runs :
           ( /\ DevRemove(r)
             /\ Trim(files[cfg[r].devExitCodePath].chars) = << "0" >> )
           => /\ devResult'[r] = [error |-> Null]
              /\ opc'[r] = "report"
              /\ posts'[r] = posts[r]
              /\ exited'[r] = << >> ]_vars
  /\ [](\A r \in Runs :
          ( /\ devResult[r] = [error |-> Null]
            /\ maintenanceResult[r].error = Null
            /\ opc[r] \in {"report", "awaitResponse", "exited"} )
          => /\ posts[r] = << >>
             /\ opc[r] # "awaitResponse"
             /\ exited[r] \in { << >>, << 0 >> })

\* both scripts had exited with 0 before their checks: nothing was posted and
\* the run exited with code 0
C24_Witness ==
  /\ remote[1].maintenance = "finished"
  /\ remote[1].dev = "finished"
  /\ maintenanceResult[1] = [exitCode |-> 0, error |-> Null]
  /\ devResult[1] = [error |-> Null]
  /\ files[devExitCodePath(runId[1].value)] = Absent
  /\ posts[1] = << >>
  /\ exited[1] = << 0 >>

\* C25: the orchestrator only moves forward through its stages, and the step
\* that checks the dev exit-code file leaves that stage, so the file is
\* checked at most once per run; once startDevScript has returned, no step,
\* the exit of the dev script included, changes the dev result; a dev script
\* that exits after the check changes neither the posts nor the exit code, and
\* a run whose stages returned no error exits with code 0 and without a post
\* whatever the dev script did later.
C25_LateDevExitIsNotDetected ==
  /\ [][ LET rank(p) ==
               CASE p = "devWindowCheck" -> 1
                 [] p = "devEarlyExitCheck" -> 2
                 [] p \in {"devRead", "devRemove", "devErrorLog"} -> 3
                 [] p \in {"report", "awaitResponse", "exited"} -> 4
                 [] OTHER -> 0
         IN  \A r \in Runs :
               /\ rank(opc'[r]) >= rank(opc[r])
               /\ DevEarlyExitCheck(r) => rank(opc'[r]) > 2
               /\ rank(opc[r]) = 4 => devResult'[r] = devResult[r]
               /\ (RemoteDevExits(r) /\ rank(opc[r]) = 4)
                  => /\ posts'[r] = posts[r]
                     /\ exited'[r] = exited[r]
                     /\ opc'[r] = opc[r] ]_vars
  /\ [](\A r \in Runs :
          ( /\ exited[r] # << >>
            /\ devResult[r] = [error |-> Null]
            /\ maintenanceResult[r].error = Null )
          => posts[r] = << >> /\ exited[r] = << 0 >>)

\* the dev script exited with 3 after the check: its exit-code file is left
\* unread, and the run exited with code 0 without a post
C25_Witness ==
  /\ remote[1].dev = "finished"
  /\ files[devExitCodePath(runId[1].value)] = TextFile(<<"3", "\n">>)
  /\ devResult[1] = [error |-> Null]
  /\ maintenanceResult[1].error = Null
  /\ posts[1] = << >>
  /\ exited[1] = << 0 >>

\* C26 as stated: every step of a teardown that signals a child or removes
\* its socket file (stopVSCodeServeWeb, the catch block of
\* ensureVSCodeServeWeb) leaves the cached base URL and socket path null, so
\* that no reader sees a URL while the teardown is under way.
C26_CacheClearedBeforeTeardown ==
  [][ \A c \in Calls :
        ( \/ child'[c].signals > child[c].signals
          \/ StopVSCodeServeWeb(c)
          \/ Cleanup(c) )
        => /\ currentServeWebBaseUrl' = Null
           /\ currentServeWebSocketPath' = Null ]_vars

C28_EnsureAlwaysReturns ==
  \A c \in Calls :
    epc[c] = "call" ~> epc[c] \in {"returnedNull", "returnedHandle"}

\* C29: a call of resolveVSCodeExecutable made while a path is cached runs no
\* lookup and returns the cached path, which stays cached; a call made while
\* none is cached runs the lookups of the platform in their order, up to the
\* first that prints a candidate, returns and caches that candidate, and
\* returns null and caches nothing when it has run them all in vain.
C29_ResolutionIsCachedOnSuccess ==
  [][ \A c \in Calls :
        EnsureVSCodeServeWeb(c)
        => LET ran == lookupsRun'[c]
               all == IF platform = "win32"
                      THEN << "where code.cmd", "where code.exe", "where code",
                              "$SHELL -lc" >>
                      ELSE << "/usr/bin/env which code", "$SHELL -lc" >>
           IN  /\ resolvedVSCodeExecutable' = executable'[c]
               /\ IF resolvedVSCodeExecutable # Null
                  THEN /\ ran = << >>
                       /\ executable'[c] = resolvedVSCodeExecutable
                  ELSE /\ Len(ran) \in 1..Len(all)
                       /\ \A i \in DOMAIN ran :
                            /\ ran[i].lookup = all[i]
                            /\ i < Len(ran) => ~ran[i].found
                       /\ IF ran[Len(ran)].found
                          THEN executable'[c] =
                                 [value |-> "code found by " \o ran[Len(ran)].lookup]
                          ELSE Len(ran) = Len(all) /\ executable'[c] = Null ]_vars

\* the first call found the executable with the shell lookup; the second
\* call ran no lookup and got the same path
C29_Witness ==
  /\ lookupsRun[1] = << [lookup |-> "/usr/bin/env which code", found |-> FALSE],
                        [lookup |-> "$SHELL -lc", found |-> TRUE] >>
  /\ executable[1] = Some("code found by $SHELL -lc")
  /\ epc[2] \notin {"call", "off"}
  /\ lookupsRun[2] = << >>
  /\ executable[2] = executable[1]
  /\ resolvedVSCodeExecutable = executable[1]

\* C30: a call of waitForVSCodeServeWebBaseUrl made while the base URL is
\* cached returns it at once; otherwise each time its timer fires before the
\* deadline it returns the URL if it is cached then and sleeps again if not,
\* and when the deadline has passed it returns the cached value, null if none
\* is cached; no step of it changes the cached base URL or socket path, and it
\* ends in a return only.
C30_WaitForUrlIsBounded ==
  /\ [][ /\ WaitForVSCodeServeWebBaseUrl
            => /\ currentServeWebBaseUrl' = currentServeWebBaseUrl
               /\ currentServeWebSocketPath' = currentServeWebSocketPath
               /\ IF currentServeWebBaseUrl # Null
                  THEN waiter'.pc = "returned"
                       /\ waiter'.result = currentServeWebBaseUrl
                  ELSE \/ waiter'.pc = "sleeping" /\ waiter'.deadline > 0
                       \/ waiter'.pc = "returned" /\ waiter'.result = Null
         /\ WaitForUrlWakes
            => /\ currentServeWebBaseUrl' = currentServeWebBaseUrl
               /\ currentServeWebSocketPath' = currentServeWebSocketPath
               /\ IF currentServeWebBaseUrl # Null
                  THEN waiter'.pc = "returned"
                       /\ waiter'.result = currentServeWebBaseUrl
                  ELSE IF waiter.rounds < waiter.deadline
                  THEN waiter'.pc = "sleeping" /\ waiter'.rounds = waiter.rounds + 1
                  ELSE waiter'.pc = "returned" /\ waiter'.result = Null
         /\ waiter.pc = "returned" => waiter' = waiter ]_vars
  /\ [](/\ waiter.pc \in {"call", "sleeping", "returned"}
        /\ waiter.rounds <= MaxUrlWaitRounds)

\* the wait slept, and returned the URL that the launch cached meanwhile
C30_Witness ==
  /\ waiter.pc = "returned"
  /\ waiter.rounds = 1
  /\ waiter.deadline = 2
  /\ waiter.result = Some("http://cmux-vscode.local")

\* C31: the final probe that does not find the session, and a new-window
\* command that fails, end the run with exit code 1 and without a POST; a run
\* that has exited before runMaintenanceScript returned has made no POST,
\* received no response and has exit code 1, also when the callback URL and
\* the token are configured.
C31_FatalSetupFailureIsNotReported ==
  /\ [][ \A r \in Runs :
           /\ ( /\ WaitForTmuxSession(r)
                /\ sessionState = "absent"
                /\ probes[r] = MaxSessionProbes )
              => /\ opc'[r] = "exited"
                 /\ exited'[r] = << 1 >>
                 /\ posts'[r] = << >>
           /\ ( /\ CreateMaintenanceWindow(r) \/ CreateDevWindow(r)
                /\ Len(cmdResults'[r]) > Len(cmdResults[r])
                /\ cmdResults'[r][Len(cmdResults'[r])] = "fails" )
              => /\ opc'[r] = "exited"
                 /\ exited'[r] = << 1 >>
                 /\ posts'[r] = << >> ]_vars
  /\ [](\A r \in Runs :
          (opc[r] = "exited" /\ maintenanceResult[r] = NoResult)
          => /\ exited[r] = << 1 >>
             /\ posts[r] = << >>
             /\ responses[r] = << >>
             /\ \/ cmds[r] = << >>
                \/ /\ cmds[r][Len(cmds[r])].cmd = "new-window"
                   /\ cmdResults[r][Len(cmdResults[r])] = "fails")

\* the callback was configured and the maintenance window could not be
\* created: the run exited with code 1 and posted nothing
C31_Witness ==
  /\ cfg[1] # NoConfig
  /\ cfg[1].convexUrl # << >>
  /\ cfg[1].taskRunJwt # << >>
  /\ cmds[1] = << [cmd |-> "new-window", target |-> "maintenance"] >>
  /\ cmdResults[1] = << "fails" >>
  /\ exited[1] = << 1 >>
  /\ posts[1] = << >>

\* C32 as stated: the step that starts the dev command line of a run is never
\* taken while the maintenance command line of that run is still running.
C32_DevNeverStartsDuringMaintenance ==
  [][ \A r \in Runs :
        (remote[r].dev = "idle" /\ remote'[r].dev = "running")
        => remote[r].maintenance # "running" ]_vars

\* C32: the dev command line of a run is started only after runMaintenanceScript
\* has returned; when it is started, the maintenance command line of that run
\* has finished or was never started, unless the maintenance wait timed out
\* (exit code 124), in which case it may still be running.
C32_DevStartsDuringMaintenanceOnlyAfterTimeout ==
  [][ \A r \in Runs :
        (remote[r].dev = "idle" /\ remote'[r].dev = "running")
        => /\ maintenanceResult[r] # NoResult
           /\ remote[r].maintenance = "running"
              => maintenanceResult[r] =
                   [exitCode |-> 124,
                    error |-> [value |->
                      <<"Maintenance script timed out after 10 minutes">>]]
           /\ maintenanceResult[r].exitCode # 124
              => remote[r].maintenance \in {"idle", "finished"} ]_vars

\* the maintenance wait timed out and the dev script was started while the
\* maintenance script was still running
C32_Witness ==
  /\ remote[1].maintenance = "running"
  /\ remote[1].dev = "running"
  /\ maintenanceResult[1] # NoResult
  /\ maintenanceResult[1].exitCode = 124
  /\ opc[1] = "devWindowCheck"

C34_EachRunExecutesItsOwnScript ==
  \A r \in Runs :
    (runId[1] # runId[2]) =>
    /\ remote[r].maintenance # "idle"
       => /\ remote[r].maintenanceRan.kind = "script"
          /\ remote[r].maintenanceRan.text = args[r].maintenanceScript.value
    /\ remote[r].dev # "idle"
       => /\ remote[r].devRan.kind = "script"
          /\ remote[r].devRan.text = args[r].devScript.value

\* C35 as stated: while the server of the most recent call of
\* ensureVSCodeServeWeb that reached readiness runs, unsignalled, and its
\* handle has not been stopped, the cached socket path is that of this server
\* and the cached base URL is not null, whatever happens to the other calls
\* and handles.
C35_CacheFollowsNewestLiveServer ==
  LET ready == { c \in Calls : epc[c] \in {"warmUp", "hung", "returnedHandle"} }
  IN  \A c \in ready :
        ( /\ \A d \in ready : d <= c
          /\ child[c].state = "running"
          /\ ~child[c].killed
          /\ stops[c] = 0 )
        => /\ currentServeWebSocketPath = [value |-> socketPath[c]]
           /\ currentServeWebBaseUrl # Null

\* C36 as stated: the step by which a call of ensureVSCodeServeWeb returns a
\* handle leaves the child of the handle running, the cached socket path
\* equal to the socket path of the handle, and the cached base URL not null.
C36_ReturnedHandleIsLive ==
  [][ \A c \in Calls :
        (epc[c] # "returnedHandle" /\ epc'[c] = "returnedHandle")
        => /\ child'[c].state = "running"
           /\ currentServeWebSocketPath' = [value |-> socketPath'[c]]
           /\ currentServeWebBaseUrl' # Null ]_vars

\* C37: in every state between two steps of ensureVSCodeServeWeb,
\* stopVSCodeServeWeb and the exit handlers, the cached base URL is null
\* exactly when the cached socket path is null.
C37_CachedValuesMoveTogether ==
  (currentServeWebBaseUrl = Null) <=> (currentServeWebSocketPath = Null)

\* both values were cached when the socket appeared, and the exit handler
\* cleared both while the call was still in its warm-up
C37_Witness ==
  /\ epc[1] = "warmUp"
  /\ child[1].state = "exited"
  /\ child[1].listened
  /\ polls[1] = 1
  /\ currentServeWebBaseUrl = Null
  /\ currentServeWebSocketPath = Null

\* C38: a run whose callback URL or token is empty makes no POST and waits
\* for no response, whatever its stages returned; when it has exited after
\* both stages returned, its exit code is 1 if a stage returned an error
\* string and 0 if none did.
C38_NoPostWithoutConfiguration ==
  \A r \in Runs :
    (cfg[r] # NoConfig /\ (cfg[r].convexUrl = << >> \/ cfg[r].taskRunJwt = << >>))
    => /\ posts[r] = << >>
       /\ responses[r] = << >>
       /\ opc[r] # "awaitResponse"
       /\ (exited[r] # << >> /\ devResult[r] # NoResult)
          => exited[r] =
               IF maintenanceResult[r].error # Null \/ devResult[r].error # Null
               THEN << 1 >> ELSE << 0 >>

\* the token was given but not the callback URL; the maintenance script
\* failed, and the run exited with code 1 without a POST
C38_Witness ==
  /\ args[1].convexUrl = Null
  /\ args[1].taskRunJwt # Null
  /\ cfg[1] # NoConfig
  /\ cfg[1].convexUrl = << >>
  /\ maintenanceResult[1] # NoResult
  /\ maintenanceResult[1].error # Null
  /\ devResult[1] = [error |-> Null]
  /\ posts[1] = << >>
  /\ exited[1] = << 1 >>

\* C39: a call with a non-blank text makes one call of instance.exec, no
\* more; it has resolved only if that call returned the exit code 0 and a
\* stdout that contains the start confirmation, which the command prints only
\* while the orchestrator is alive; it has rejected whenever the call ended in
\* any other way; and the step that ends the call is possible whatever the
\* scripts in the session are doing.
C39_LaunchResolvesOnConfirmedStart ==
  /\ [](\A r \in Runs :
          /\ execCalls[r] <= 1
          /\ lpc[r] \in {"execWriteScripts", "execStartOrchestrator", "execVerify",
                         "rejected"}
             => execCalls[r] = 1
          /\ (lpc[r] = "resolved" /\ runId[r] # Null)
             => /\ execCalls[r] = 1
                /\ execResult[r] # Null
                /\ execResult[r].kind = "returned"
                /\ execResult[r].exit_code = 0
                /\ execResult[r].stdout # Null
                /\ \E i \in DOMAIN execResult[r].stdout.value :
                     execResult[r].stdout.value[i] =
                       "[ORCHESTRATOR] Started successfully in background (PID:"
          /\ execResult[r] # Null
             => IF /\ execResult[r].kind = "returned"
                   /\ execResult[r].exit_code = 0
                   /\ execResult[r].stdout # Null
                   /\ execResult[r].stdout.value # << >>
                THEN lpc[r] = "resolved"
                ELSE lpc[r] = "rejected"
          /\ lpc[r] = "execVerify" => ENABLED ExecVerify(r))
  /\ [][ \A r \in Runs :
           /\ (lpc[r] # "resolved" /\ lpc'[r] = "resolved" /\ runId[r] # Null)
              => lpc[r] = "execVerify" /\ exited[r] = << >>
           /\ (ExecVerify(r) /\ exited[r] # << >>) => lpc'[r] = "rejected"
           /\ lpc[r] \in {"resolved", "rejected"} => lpc'[r] = lpc[r] ]_vars

\* the call resolved on the confirmation while the maintenance script was
\* still running and the dev script had not been started
C39_Witness ==
  /\ lpc[1] = "resolved"
  /\ execCalls[1] = 1
  /\ execResult[1] # Null
  /\ execResult[1].exit_code = 0
  /\ remote[1].maintenance = "running"
  /\ remote[1].dev = "idle"
  /\ opc[1] = "maintenanceWait"

\* C40: once the maintenance wait has found the exit-code file, the file is
\* removed before runMaintenanceScript returns, whether its content parsed
\* or not; the round that times out reads and removes nothing, and after a
\* timeout only the maintenance command line changes the file, so that a file
\* written later stays; the dev exit-code file that the one check found is
\* removed before startDevScript returns, and a file the check did not find
\* is never read or removed afterwards.
C40_ExitCodeFileIsConsumed ==
  /\ [][ \A r \in Runs :
           LET returnsMaintenance ==
                 maintenanceResult[r] = NoResult /\ maintenanceResult'[r] # NoResult
               returnsDev == devResult[r] = NoResult /\ devResult'[r] # NoResult
           IN  /\ MaintenanceRemove(r)
                  => files'[cfg[r].maintenanceExitCodePath] = [kind |-> "absent"]
               /\ (returnsMaintenance /\ opc[r] \in {"maintenanceRead", "maintenanceRemove",
                                                    "maintenanceErrorLog"})
                  => files'[cfg[r].maintenanceExitCodePath] = [kind |-> "absent"]
               /\ (returnsMaintenance /\ opc[r] = "maintenanceWait")
                  => /\ maintenanceResult'[r].exitCode = 124
                     /\ files' = files
                     /\ parsed' = parsed
               /\ ( /\ maintenanceResult[r] # NoResult
                    /\ maintenanceResult[r].exitCode = 124
                    /\ files'[cfg[r].maintenanceExitCodePath]
                         # files[cfg[r].maintenanceExitCodePath] )
                  => /\ remote[r].maintenance = "running"
                     /\ remote'[r].maintenance = "finished"
                     /\ files'[cfg[r].maintenanceExitCodePath] # [kind |-> "absent"]
               /\ DevRemove(r) => files'[cfg[r].devExitCodePath] = [kind |-> "absent"]
               /\ (returnsDev /\ opc[r] \in {"devRead", "devRemove", "devErrorLog"})
                  => files'[cfg[r].devExitCodePath] = [kind |-> "absent"]
               /\ ( /\ devResult[r] # NoResult
                    /\ cfg[r] # NoConfig
                    /\ files'[cfg[r].devExitCodePath] # files[cfg[r].devExitCodePath] )
                  => /\ remote[r].dev = "running"
                     /\ remote'[r].dev = "finished" ]_vars
  /\ [](\A r \in Runs :
          ( /\ maintenanceResult[r] # NoResult
            /\ maintenanceResult[r].exitCode # 124
            /\ cfg[r].hasMaintenanceScript )
          => files[cfg[r].maintenanceExitCodePath] = [kind |-> "absent"])

\* the maintenance exit-code file held text that does not parse: it was
\* removed all the same; the dev exit-code file was written after the check
\* and stays
C40_Witness ==
  /\ remote[1].maintenance = "finished"
  /\ maintenanceResult[1] =
       [exitCode |-> 1,
        error |-> [value |-> <<"Maintenance script exit code missing or invalid">>]]
  /\ files[maintenanceExitCodePath(runId[1].value)] = Absent
  /\ devResult[1] = [error |-> Null]
  /\ files[devExitCodePath(runId[1].value)] # Absent

====
